---- MODULE Spec2Model ----
(***************************************************************************)
(* Verification model of the photo-analysis engine (next-enterprise):     *)
(* hue-band analysis, histogram peaks, tone-curve synthesis, scalar        *)
(* estimators and the 3x3 matrix composer.                                 *)
(*                                                                         *)
(* Numbers.  The program computes in IEEE doubles; the model computes in   *)
(* fixed point on integers:                                                *)
(*   S   = 1000   generic scale of a real number ("milli")                 *)
(*   W   = 10000  scale of exp() results and Gaussian weights              *)
(*   Lab values and hue angles are in 1/100 of a unit / of a degree        *)
(* NaN is kept as a value of its own (see NaN) because the claims about    *)
(* the record are about it.                                                *)
(***************************************************************************)
EXTENDS Integers, Sequences, FiniteSets, TLC

S == 1000
W == 10000
H == 100

Abs(x) == IF x < 0 THEN 0 - x ELSE x
Max2(a, b) == IF a > b THEN a ELSE b
Min2(a, b) == IF a < b THEN a ELSE b

\* the identity; it makes the array f be computed once, as the program's
\* arrays are, and not at each of its uses
Stored(f) == IF f = f THEN f ELSE f

RECURSIVE SumTo(_, _, _)
\* sum of f[j] for j in lo..hi (Array.prototype.reduce with +)
SumTo(f, lo, hi) == IF lo > hi THEN 0 ELSE f[lo] + SumTo(f, lo + 1, hi)

RECURSIVE SetMax(_)
SetMax(T) == IF T = {} THEN 0
             ELSE LET x == CHOOSE y \in T : TRUE
                      m == SetMax(T \ {x})
                  IN IF T = {x} THEN x ELSE Max2(x, m)

RECURSIVE SetMin(_)
SetMin(T) == IF T = {} THEN 0
             ELSE LET x == CHOOSE y \in T : TRUE
                      m == SetMin(T \ {x})
                  IN IF T = {x} THEN x ELSE Min2(x, m)

\* Math.round on a value scaled by sc: nearest integer, halves towards +Infinity
Round(x, sc) == (2 * x + sc) \div (2 * sc)

RECURSIVE SqrtIter(_, _, _)
SqrtIter(n, lo, hi) ==
  IF lo >= hi THEN lo
  ELSE LET mid == (lo + hi + 1) \div 2
       IN IF mid * mid <= n THEN SqrtIter(n, mid, hi) ELSE SqrtIter(n, lo, mid - 1)

\* Math.sqrt, rounded down to an integer (n < 2^31, so the root is below 46341)
Sqrt(n) == IF n <= 0 THEN 0 ELSE SqrtIter(n, 0, Min2(n, 46340))

\* e^(-k) scaled by W, k a natural number
ExpInt(k) == IF k > 9 THEN 0 ELSE <<10000, 3679, 1353, 498, 183, 67, 25, 9, 3, 1>>[k + 1]

\* Math.exp(-x) for x >= 0 scaled by S; result scaled by W.
\* e^(-x) = e^(-k) * e^(-f), the fractional factor by its Taylor polynomial.
ExpNeg(x) ==
  LET k  == x \div S
      t  == (x % S) * (W \div S)
      t2 == (t * t) \div W
      t3 == (t2 * t) \div W
      t4 == (t3 * t) \div W
      t5 == (t4 * t) \div W
      fr == W - t + t2 \div 2 - t3 \div 6 + t4 \div 24 - t5 \div 120
  IN (ExpInt(k) * fr) \div W

\* Math.sin of x degrees (x scaled by H, 0 <= x <= 180), result scaled by S:
\* Bhaskara's rational approximation, error below 0.002
SinDeg(x) ==
  LET p == (x * (180 * H - x)) \div H
  IN (4 * p * 10) \div ((40500 * H - p) \div 100)

\* Math.sin / Math.cos of an integer number of degrees, result scaled by S
SinInt(d) ==
  LET m == d % 360
  IN IF m <= 180 THEN SinDeg(m * H) ELSE 0 - SinDeg((m - 180) * H)

CosInt(d) == SinInt(d + 90)

\* atan(z) in 1/100 degree for 0 <= z <= 1, z scaled by S (error below 0.1 degree)
AtanUnit(z) == (4500 * z) \div S + (((z * (S - z)) \div S) * (1402 + (380 * z) \div S)) \div S

\* Math.atan2(y, x) * 180 / Math.PI, in 1/100 degree, in [-18000, 18000].
\* atan2(0, 0) = 0 and atan2(0, x) = 180 degrees for x < 0 (y is +0).
Atan2Deg(y, x) ==
  LET ax == Abs(x)
      ay == Abs(y)
      t0 == IF ax = 0 /\ ay = 0 THEN 0
            ELSE IF ax >= ay THEN AtanUnit((ay * S) \div ax)
            ELSE 9000 - AtanUnit((ax * S) \div ay)
      t1 == IF x < 0 THEN 18000 - t0 ELSE t0
  IN IF y < 0 THEN 0 - t1 ELSE t1

(***************************************************************************)
(* IEEE NaN.  Only 0/0 produces it in the modelled code; every operator    *)
(* that can meet it propagates it as the double arithmetic does.           *)
(***************************************************************************)
NaN == 0 - 2000000000

IsNaN(x) == x = NaN

\* a statistic that is not there (undefined), also what r?.mean gives when
\* the channel r itself is not there
undefinedStat == NaN + 1

\* typeof x === "number": true of NaN as well
IsNumber(x) == x # undefinedStat

\* a / b on doubles with a, b >= 0, result scaled by sc: 0/0 is NaN
FDiv(a, b, sc) == IF b = 0 THEN NaN ELSE (a * sc) \div b

FAdd(a, b) == IF IsNaN(a) \/ IsNaN(b) THEN NaN ELSE a + b

\* Math.round(x) for x scaled by sc; Math.round(NaN) is NaN
FRound(x, sc) == IF IsNaN(x) THEN NaN ELSE Round(x, sc)

(***************************************************************************)
(* Bounds of the model                                                     *)
(***************************************************************************)
MaxPixels == 2

(***************************************************************************)
(* Pixels.  An image is a sequence of pixels, each one of the colours of   *)
(* Palette (8-bit R, G, B).                                                *)
(***************************************************************************)
Palette ==
  << <<0, 0, 0>>, <<128, 128, 128>>, <<90, 230, 190>>,
     <<60, 245, 235>>, <<245, 100, 115>>, <<255, 0, 0>> >>

\* rgbToLab on the colours of Palette, in 1/100 (the sRGB -> XYZ -> Lab
\* transform evaluated in doubles and rounded)
rgbToLab(c) ==
  CASE c = 1 -> [l |-> 0,    a |-> 0,     b |-> 0]
    [] c = 2 -> [l |-> 5359, a |-> 0,     b |-> -1]
    [] c = 3 -> [l |-> 8317, a |-> -4720, b |-> 833]
    [] c = 4 -> [l |-> 8810, a |-> -4638, b |-> -818]
    [] c = 5 -> [l |-> 6145, a |-> 5675,  b |-> 2065]
    [] c = 6 -> [l |-> 5323, a |-> 8011,  b |-> 6722]

\* the pixel data of the uploads: up to MaxPixels palette colours.  No analysis
\* reads the position of a pixel, so one order per choice of colours is taken.
Images ==
  {img \in UNION {[1..n -> 1..Len(Palette)] : n \in 1..MaxPixels} :
     \A i \in 1..(Len(img) - 1) : img[i] <= img[i + 1]}

\* sharp(buffer).extractChannel(ch).raw().toBuffer(): the 8-bit samples of channel ch
ChannelData(img, ch) == [i \in 1..Len(img) |-> Palette[img[i]][ch]]

(***************************************************************************)
(* Hue bands                                                               *)
(***************************************************************************)
Bands == <<"red", "orange", "yellow", "green", "aqua", "blue", "purple", "magenta">>

COLOR_RANGES ==
  [red     |-> [start |-> 345, end |-> 15,  center |-> 0],
   orange  |-> [start |-> 15,  end |-> 45,  center |-> 30],
   yellow  |-> [start |-> 45,  end |-> 75,  center |-> 60],
   green   |-> [start |-> 75,  end |-> 165, center |-> 120],
   aqua    |-> [start |-> 165, end |-> 195, center |-> 180],
   blue    |-> [start |-> 195, end |-> 255, center |-> 225],
   purple  |-> [start |-> 255, end |-> 285, center |-> 270],
   magenta |-> [start |-> 285, end |-> 345, center |-> 315]]

\* (Math.atan2(lab.b, lab.a) * 180) / Math.PI + 180, in 1/100 degree
HueOfLab(lab) == Atan2Deg(lab.b, lab.a) + 180 * H

\* variant of InRange that treats every range as an interval
InRangeNoWrap(hue, range) == hue >= range.start * H /\ hue <= range.end * H

\* the wrap-aware membership test of analyzeColorDistribution; hue in 1/100 degree
InRange(hue, range) ==
  IF range.start > range.end
  THEN hue >= range.start * H \/ hue <= range.end * H
  ELSE hue >= range.start * H /\ hue <= range.end * H

\* Math.floor(hue), the index of the hue histogram that is incremented
HueBin(hue) == hue \div H

(***************************************************************************)
(* Histogram engine.  Arrays are functions on 0..n-1.                      *)
(***************************************************************************)
\* Math.ceil(sigma * 6) for the default sigma = 2
WindowSize == 12

\* Math.exp(-(distance * distance) / (2 * sigma * sigma)) for sigma = 2, scaled by W
GaussWeight(d) == ExpNeg((d * d * S) \div 8)

\* GaussWeight at the distances 0..WindowSize, tabulated (entry d + 1 is the
\* weight of distance d)
GaussKernel == <<10000, 8825, 6065, 3247, 1353, 439, 111, 22, 3, 0, 0, 0, 0>>

RECURSIVE WinSum(_, _, _, _)
WinSum(arr, i, j, hi) ==
  IF j > hi THEN 0
  ELSE (IF IsNaN(arr[j]) THEN 0 ELSE arr[j] * GaussKernel[Abs(i - j) + 1]) + WinSum(arr, i, j + 1, hi)

RECURSIVE WinWeight(_, _, _, _)
WinWeight(arr, i, j, hi) ==
  IF j > hi THEN 0
  ELSE (IF IsNaN(arr[j]) THEN 0 ELSE GaussKernel[Abs(i - j) + 1]) + WinWeight(arr, i, j + 1, hi)

\* smoothArray(arr): n = arr.length; arr holds counts, the result is scaled by W
smoothArray(arr, n) ==
  [i \in 0..(n - 1) |->
     LET lo == Max2(0, i - WindowSize)
         hi == Min2(n - 1, i + WindowSize)
         sum == WinSum(arr, i, lo, hi)
         weightSum == WinWeight(arr, i, lo, hi)
     IN IF weightSum > 0 THEN (sum * W) \div weightSum ELSE 0]

RECURSIVE SortedSeq(_)
\* the elements of a finite set of integers in ascending order
SortedSeq(T) == IF T = {} THEN << >> ELSE <<SetMin(T)>> \o SortedSeq(T \ {SetMin(T)})

\* variant of MaxHeight that takes half of the maximum (at least 1)
HalfMaxHeight(hist, n) ==
  Max2(1, SetMax({hist[i] : i \in {k \in 0..(n - 1) : ~IsNaN(hist[k])}}) \div 2)

\* Math.max(...validHistogram)
MaxHeight(hist, n) == SetMax({hist[i] : i \in {k \in 0..(n - 1) : ~IsNaN(hist[k])}})

firstDerivative(hist, i) == hist[i + 1] - hist[i]

secondDerivative(hist, i) == firstDerivative(hist, i + 1) - firstDerivative(hist, i)

\* derivative mode: the indices that pass the sign-change test
DerivPeakAt(hist, maxHeight, i) ==
  /\ ~IsNaN(hist[i])
  /\ hist[i] * 100 > maxHeight
  /\ firstDerivative(hist, i - 1) > 0
  /\ firstDerivative(hist, i) < 0

\* distance to the nearest index on the left / right where the second derivative is positive
LeftWidth(hist, n, i) ==
  LET js == {j \in 0..(i - 1) : j <= n - 3 /\ secondDerivative(hist, j) > 0}
  IN IF js = {} THEN 0 ELSE i - SetMax(js)

RightWidth(hist, n, i) ==
  LET js == {j \in i..(n - 3) : secondDerivative(hist, j) > 0}
  IN IF js = {} THEN 0 ELSE SetMin(js) - i

\* (current / maxHeight) * exp(-0.5 * (distanceFromMean / stdev)^2) > 0.1;
\* mean and stdev scaled by S.  With stdev = 0 the quotient is NaN or
\* Infinity and the comparison is false.
Significant(hist, maxHeight, i, mean, stdev) ==
  LET dist == Abs(i * S - mean)
      q    == (dist * S) \div stdev
      e    == IF q > 10 * S THEN 0 ELSE ExpNeg((q * q) \div (2 * S))
      hgt  == (hist[i] * S) \div maxHeight
  IN stdev # 0 /\ hgt * e > (S * W) \div 10

\* variant of LocalPeakAt that lets the right neighbour be as high
LocalPeakOrPlateau(hist, maxHeight, i) ==
  /\ ~IsNaN(hist[i]) /\ ~IsNaN(hist[i - 1]) /\ ~IsNaN(hist[i + 1])
  /\ hist[i] * 100 > maxHeight
  /\ hist[i] > hist[i - 1]
  /\ hist[i] >= hist[i + 1]

\* fallback mode: strict local maximum above 1% of the maximum
LocalPeakAt(hist, maxHeight, i) ==
  /\ ~IsNaN(hist[i]) /\ ~IsNaN(hist[i - 1]) /\ ~IsNaN(hist[i + 1])
  /\ hist[i] * 100 > maxHeight
  /\ hist[i] > hist[i - 1]
  /\ hist[i] > hist[i + 1]

LocalWindow == 10

\* sum of value over the +-10 window (localCount)
LocalCount(hist, n, i) ==
  LET lo == Max2(0, i - LocalWindow)
      hi == Min2(n - 1, i + LocalWindow)
  IN SumTo([j \in lo..hi |-> IF IsNaN(hist[j]) THEN 0 ELSE hist[j]], lo, hi)

\* localMean - i, in 1/100 bin (localSum / localCount, taken relative to i)
LocalMeanOffset(hist, n, i) ==
  LET lo == Max2(0, i - LocalWindow)
      hi == Min2(n - 1, i + LocalWindow)
      s  == SumTo([j \in lo..hi |-> IF IsNaN(hist[j]) THEN 0 ELSE (j - i) * hist[j]], lo, hi)
  IN (s * H) \div LocalCount(hist, n, i)

\* Math.sqrt(localVariance / localCount), in 1/100 bin
LocalWidth(hist, n, i) ==
  LET lo == Max2(0, i - LocalWindow)
      hi == Min2(n - 1, i + LocalWindow)
      m  == LocalMeanOffset(hist, n, i)
      cnt == LocalCount(hist, n, i)
      v  == SumTo([j \in lo..hi |->
                     IF IsNaN(hist[j]) THEN 0
                     ELSE hist[j] * ((((j - i) * H - m) * ((j - i) * H - m)) \div H)],
                  lo, hi)
  IN IF cnt = 0 THEN 0 ELSE Sqrt((v \div cnt) * H)

\* findHistogramPeaks(histogram, mean, stdev): derivative mode when useStats,
\* else the local-maximum fallback.  position in bins, height scaled by S,
\* width in 1/100 bin; the peaks come in ascending position.
findHistogramPeaks(hist, n, useStats, mean, stdev) ==
  LET maxHeight == MaxHeight(hist, n)
      idx == IF useStats
             THEN {i \in 1..(n - 2) : DerivPeakAt(hist, maxHeight, i)
                                       /\ Significant(hist, maxHeight, i, mean, stdev)}
             ELSE {i \in 1..(n - 2) : LocalPeakAt(hist, maxHeight, i) /\ LocalCount(hist, n, i) > 0}
      order == SortedSeq(idx)
  IN [k \in 1..Len(order) |->
        LET i == order[k]
        IN [position |-> i,
            height   |-> (hist[i] * S) \div maxHeight,
            width    |-> IF useStats
                         THEN Max2(LeftWidth(hist, n, i), RightWidth(hist, n, i)) * 2 * H
                         ELSE LocalWidth(hist, n, i)]]

(***************************************************************************)
(* Hue-distribution analyzer                                               *)
(***************************************************************************)
HueBins == 360

\* the Lab values of the pixels of img, in buffer order
LabPixels(img) == [i \in 1..Len(img) |-> rgbToLab(img[i])]

\* indices of the pixels pushed to `pixels` (their hue is inside the range)
Members(labs, range) == {i \in 1..Len(labs) : InRange(HueOfLab(labs[i]), range)}

\* the 360-bin histogram after the pixel loop.  histogram[Math.floor(hue)]++
\* at index 360 writes past the end: the array grows to 361 entries and the
\* new entry (undefined + 1) is NaN.
HueHistogram(labs, members) ==
  LET bins == {HueBin(HueOfLab(labs[i])) : i \in members}
      n    == IF \E k \in bins : k >= HueBins THEN HueBins + 1 ELSE HueBins
  IN [k \in 0..(n - 1) |->
        IF k >= HueBins THEN NaN
        ELSE Cardinality({i \in members : HueBin(HueOfLab(labs[i])) = k})]

\* arithmetic mean of the Lab values with index in idx (idx not empty)
MeanLab(labs, idx) ==
  LET ord == SortedSeq(idx)
      n   == Len(ord)
  IN [l |-> SumTo([k \in 1..n |-> labs[ord[k]].l], 1, n) \div n,
      a |-> SumTo([k \in 1..n |-> labs[ord[k]].a], 1, n) \div n,
      b |-> SumTo([k \in 1..n |-> labs[ord[k]].b], 1, n) \div n]

ZeroLab == [l |-> 0, a |-> 0, b |-> 0]

\* variant of EmptyDistribution whose mean is mid-grey instead of zero
GreyDistribution ==
  [mean |-> [l |-> 50 * H, a |-> 0, b |-> 0], peaks |-> << >>, weight |-> 0, count |-> 0, bins |-> {}]

\* the neutral result of an empty match (and of the catch block)
EmptyDistribution == [mean |-> ZeroLab, peaks |-> << >>, weight |-> 0, count |-> 0, bins |-> {}]

\* analyzeColorDistribution(buffer, range) on the Lab pixels of the buffer.
\* weight is scaled by S.  Of the histogram the result keeps `bins`, the set
\* of indices that were incremented; count is pixels.length.
analyzeColorDistribution(labs, range) ==
  LET members == Members(labs, range)
      histogram == HueHistogram(labs, members)
      n == IF \E i \in members : HueBin(HueOfLab(labs[i])) >= HueBins THEN HueBins + 1 ELSE HueBins
  IN IF members = {} THEN EmptyDistribution
     ELSE LET mean == MeanLab(labs, members)
              histogramPeaks == findHistogramPeaks(Stored(smoothArray(histogram, n)), n, FALSE, 0, 0)
              peaks == [k \in 1..Len(histogramPeaks) |->
                          LET peak == histogramPeaks[k]
                              peakPixels == {i \in members :
                                               2 * Abs(HueOfLab(labs[i]) - peak.position * H) < peak.width}
                          IN IF peakPixels = {} THEN mean ELSE MeanLab(labs, peakPixels)]
          IN [mean |-> mean,
              peaks |-> peaks,
              weight |-> (Cardinality(members) * S) \div Len(labs),
              count |-> Cardinality(members),
              bins |-> {HueBin(HueOfLab(labs[i])) : i \in members}]

(***************************************************************************)
(* Colour-adjustment estimator                                             *)
(***************************************************************************)
\* variant of HueDiff without the wrap
HueDiffUnwrapped(hue, center) == hue - center * H

\* hue - center wrapped by one subtraction / addition of 360, in 1/100 degree
HueDiff(hue, center) ==
  LET d0 == hue - center * H
      d1 == IF d0 > 180 * H THEN d0 - 360 * H ELSE d0
  IN IF d1 < 0 - 180 * H THEN d1 + 360 * H ELSE d1

\* Math.sqrt(a * a + b * b), in 1/100
Chroma(lab) == Sqrt(lab.a * lab.a + lab.b * lab.b)

\* Math.min(1, chroma / 128), scaled by S
ChromaWeight(lab) == Min2(S, (Chroma(lab) * S) \div (128 * H))

\* the body of calculateColorHue after the distribution has been obtained
calculateColorHue(distribution, range) ==
  IF distribution.weight = 0 THEN 0
  ELSE LET all == <<distribution.mean>> \o distribution.peaks
           n == Len(all)
           totalAdjustment ==
             SumTo([k \in 1..n |-> HueDiff(HueOfLab(all[k]), range.center) * ChromaWeight(all[k])], 1, n)
           totalWeight == SumTo([k \in 1..n |-> ChromaWeight(all[k])], 1, n)
       IN IF totalWeight = 0 THEN 0
          ELSE Round(((totalAdjustment \div totalWeight) * 75 * distribution.weight) \div (100 * S), H)

TargetChroma == 60

\* 1 - Math.abs(l - 50) / 50, scaled by S
LuminanceWeight(lab) == S - (Abs(lab.l - 50 * H) * S) \div (50 * H)

\* variant of calculateColorSaturation without the short-circuit and the weights
UnweightedSaturation(distribution) ==
  Round(((Chroma(distribution.mean) - TargetChroma * H) * 125) \div 100, H)

\* the body of calculateColorSaturation after the distribution has been obtained
calculateColorSaturation(distribution) ==
  IF distribution.weight = 0 THEN 0
  ELSE LET all == <<distribution.mean>> \o distribution.peaks
           n == Len(all)
           wgt(k) == (LuminanceWeight(all[k]) * distribution.weight) \div S
           totalAdjustment ==
             SumTo([k \in 1..n |-> (Chroma(all[k]) - TargetChroma * H) * wgt(k)], 1, n)
           totalWeight == SumTo([k \in 1..n |-> wgt(k)], 1, n)
       IN IF totalWeight = 0 THEN 0
          ELSE Round(((totalAdjustment \div totalWeight) * 125) \div 100, H)

(***************************************************************************)
(* Channel statistics and channel histograms                               *)
(***************************************************************************)
\* one entry of sharp(buffer).stats().channels for the samples v (a sequence
\* of 8-bit values): min and max are integers, mean and stdev are scaled by S
ChannelStats(v) ==
  LET n    == Len(v)
      sum  == SumTo(v, 1, n)
      sq   == SumTo([i \in 1..n |-> v[i] * v[i]], 1, n)
      mean == (sum * S) \div n
      meanC == (sum * H) \div n
      varC == (sq * H) \div n - (meanC * meanC) \div H
  IN [mean |-> mean,
      stdev |-> Sqrt(Max2(varC, 0) * H) * (S \div H),
      min |-> SetMin({v[i] : i \in 1..n}),
      max |-> SetMax({v[i] : i \in 1..n})]

\* stats.channels of an image: the statistics of R, G and B
StatsOf(img) == [ch \in 1..3 |-> ChannelStats(ChannelData(img, ch))]

ToneBins == 256

RECURSIVE InsertBy(_, _, _)
\* insert x into the sequence s, sorted by the key function, after the elements that are not behind it
InsertBy(key, s, x) ==
  IF s = << >> THEN <<x>>
  ELSE IF key[x] < key[Head(s)] THEN <<x>> \o s
  ELSE <<Head(s)>> \o InsertBy(key, Tail(s), x)

RECURSIVE SortBy(_, _)
\* Array.prototype.sort by ascending key (stable); key maps each element to its sort key
SortBy(key, s) ==
  IF s = << >> THEN << >>
  ELSE InsertBy(key, SortBy(key, SubSeq(s, 1, Len(s) - 1)), s[Len(s)])

\* getChannelHistogram(buffer, channelIndex).peaks: the peaks of the smoothed
\* 256-bin histogram in derivative mode with sharp's mean and stdev, sorted by
\* height descending
getChannelHistogram(v, stats) ==
  LET counts == [k \in 0..(ToneBins - 1) |-> Cardinality({i \in 1..Len(v) : v[i] = k})]
      smoothedCounts == Stored(smoothArray(counts, ToneBins))
      peaks == findHistogramPeaks(smoothedCounts, ToneBins, TRUE, stats.mean, stats.stdev)
  IN SortBy([p \in {peaks[k] : k \in 1..Len(peaks)} |-> 0 - p.height], peaks)

(***************************************************************************)
(* Tone-curve synthesizer.  input, output and weight of a TonePoint are    *)
(* scaled by S.                                                            *)
(***************************************************************************)
Anchors == <<[input |-> 0, output |-> 0, weight |-> S],
             [input |-> 255 * S, output |-> 255 * S, weight |-> S]>>

\* the output given to a peak: shadow recovery below 128, highlight recovery from 128 on
PeakOutput(peak) ==
  LET input == peak.position * S
  IN IF peak.position < 128
     THEN LET shadowRecovery == Max2(0, (128 - peak.position) * 300)
          IN Max2(0, input + (shadowRecovery * (S - peak.height)) \div S)
     ELSE LET highlightRecovery == Max2(0, (peak.position - 128) * 200)
          IN Min2(255 * S, input - (highlightRecovery * (S - peak.height)) \div S)

\* variant of PeakPoints that pushes both shoulders wherever they fall
PeakWithBothShoulders(peak) ==
  LET input == peak.position * S
      output == PeakOutput(peak)
      shoulderWidth == peak.width * (S \div H)
  IN <<[input |-> input, output |-> output, weight |-> peak.height],
       [input |-> input - shoulderWidth, output |-> output - shoulderWidth, weight |-> peak.height \div 2],
       [input |-> input + shoulderWidth, output |-> output + shoulderWidth, weight |-> peak.height \div 2]>>

\* the points pushed for one peak: the peak and the shoulders that fall inside (0, 255)
PeakPoints(peak) ==
  LET input == peak.position * S
      output == PeakOutput(peak)
      shoulderWidth == peak.width * (S \div H)
  IN <<[input |-> input, output |-> output, weight |-> peak.height]>>
     \o (IF input - shoulderWidth > 0
         THEN <<[input |-> input - shoulderWidth, output |-> output - shoulderWidth,
                 weight |-> peak.height \div 2]>>
         ELSE << >>)
     \o (IF input + shoulderWidth < 255 * S
         THEN <<[input |-> input + shoulderWidth, output |-> output + shoulderWidth,
                 weight |-> peak.height \div 2]>>
         ELSE << >>)

RECURSIVE AllPeakPoints(_)
AllPeakPoints(peaks) ==
  IF peaks = << >> THEN << >> ELSE PeakPoints(Head(peaks)) \o AllPeakPoints(Tail(peaks))

\* the sort key of (a, b) => a.input - b.input for the points of s
ByInput(s) == [p \in {s[k] : k \in 1..Len(s)} |-> p.input]

findSignificantTonePointsFromHistogram(peaks) ==
  LET points == Anchors \o AllPeakPoints(peaks)
  IN SortBy(ByInput(points), points)

ShadowThreshold == 64

HighlightThreshold == 192

\* Math.min(0.8, Math.max(0.2, 0.4 + (contrastFactor / 128) * 0.2 + (1 - dynamicRange / 255) * 0.2)),
\* scaled by S
SCurveStrength(points) ==
  LET n == Len(points)
      meanBrightness == SumTo([k \in 1..n |-> points[k].input], 1, n) \div n
      contrastFactor == SumTo([k \in 1..n |-> Abs(points[k].input - meanBrightness)], 1, n) \div n
      dynamicRange == SetMax({points[k].input : k \in 1..n}) - SetMin({points[k].input : k \in 1..n})
  IN Min2(800, Max2(200, 400 + (contrastFactor * 200) \div (128 * S)
                              + ((S - dynamicRange \div 255) * 200) \div S))

\* variant of NumPoints that always takes basePoints
BasePointsOnly(points) == 5

\* variant of NumPoints that counts every point of weight above 0 as significant
SignificantAboveZero(points) ==
  LET n == Len(points)
      totalWeight == SumTo([k \in 1..n |-> points[k].weight], 1, n)
      weightedPoints == Cardinality({k \in 1..n : points[k].weight > 0})
      complexityFactor == Min2((weightedPoints * totalWeight) \div n, 3 * S)
  IN Min2(20, Max2(5, Round(5 * S + complexityFactor * 5, S)))

\* numPoints = Math.min(20, Math.max(5, Math.round(basePoints + complexityFactor * 5)))
NumPoints(points) ==
  LET n == Len(points)
      totalWeight == SumTo([k \in 1..n |-> points[k].weight], 1, n)
      weightedPoints == Cardinality({k \in 1..n : points[k].weight > S \div 10})
      complexityFactor == Min2((weightedPoints * totalWeight) \div n, 3 * S)
  IN Min2(20, Max2(5, Round(5 * S + complexityFactor * 5, S)))

\* the shoulder point pushed for one point, if any
ShoulderOf(point) ==
  IF point.input < ShadowThreshold * S
  THEN LET shoulderPos == point.input + point.weight * ShadowThreshold
       IN <<[input |-> shoulderPos,
             output |-> shoulderPos + (point.output - point.input) \div 2,
             weight |-> point.weight \div 2]>>
  ELSE IF point.input > HighlightThreshold * S
  THEN LET shoulderPos == point.input - ((255 * S - point.input) * point.weight) \div S
       IN <<[input |-> shoulderPos,
             output |-> shoulderPos + (point.output - point.input) \div 2,
             weight |-> point.weight \div 2]>>
  ELSE << >>

RECURSIVE ShoulderPoints(_)
ShoulderPoints(points) ==
  IF points = << >> THEN << >> ELSE ShoulderOf(Head(points)) \o ShoulderPoints(Tail(points))

\* distance / sigma scaled by S, for sigma = (255 / (numPoints * 2)) * (1 + point.weight);
\* -1 stands for the quotient 0 / 0 (distance 0, sigma 0), which is NaN,
\* and 50 * S for a quotient so large that exp() underflows to 0
SigmaRatio(position, point, numPoints) ==
  LET distance == Abs(position - point.input)
      sigma == (((255 * S) \div (numPoints * 2)) * (S + point.weight)) \div S
  IN IF sigma = 0 THEN (IF distance = 0 THEN 0 - 1 ELSE 50 * S)
     ELSE LET q == distance \div Abs(sigma)
          IN IF q >= 40 THEN 50 * S ELSE (distance * S) \div Abs(sigma)

\* (distance * distance) / (2 * sigma * sigma), scaled by S
Exponent(q) == (q * q) \div (2 * S)

\* the Gaussian blend of the deltas at one position:
\* totalWeight > 0 ? weightedSum / totalWeight : 0, scaled by S.
\* The influences exp(-x) are all taken relative to the largest one
\* (exp(-(x - xmin))): the common factor cancels in the quotient and does
\* not change the sign of totalWeight.  An influence that underflows in
\* doubles (x > 745) is 0; a NaN influence makes totalWeight NaN and the
\* adjustment 0.
Adjustment(position, allPoints, numPoints) ==
  LET n  == Len(allPoints)
      q  == [k \in 1..n |-> SigmaRatio(position, allPoints[k], numPoints)]
      live == {k \in 1..n : q[k] >= 0 /\ q[k] < 40 * S /\ Exponent(q[k]) <= 745 * S}
      xmin == SetMin({Exponent(q[k]) : k \in {j \in live : allPoints[j].weight # 0}})
      wgt == [k \in 1..n |->
                IF k \in live
                THEN (allPoints[k].weight * ExpNeg(Max2(0, Exponent(q[k]) - xmin))) \div W
                ELSE 0]
      weightedSum == SumTo([k \in 1..n |->
                              ((allPoints[k].output - allPoints[k].input) \div 10) * wgt[k]], 1, n)
      totalWeight == SumTo(wgt, 1, n)
  IN IF \E k \in 1..n : q[k] < 0 THEN 0
     ELSE IF totalWeight > 0 THEN (weightedSum \div totalWeight) * 10 ELSE 0

\* variant of Clamp255 that lets the value through
NoClamp(x) == x

\* Math.max(0, Math.min(255, x)), x scaled by S
Clamp255(x) == Max2(0, Min2(255 * S, x))

\* one point [Math.round(position), Math.round(output)] of the curve
CurvePoint(i, allPoints, numPoints, sCurveStrength) ==
  LET position == (i * 255 * S) \div (numPoints - 1)
      adjustment == Adjustment(position, allPoints, numPoints)
      normalizedPos == position \div 255
      sCurve == normalizedPos + (sCurveStrength * SinDeg((normalizedPos * 180 * H) \div S)) \div S
      blendFactor == (4 * normalizedPos * (S - normalizedPos)) \div S
      blendedCurve == (normalizedPos * (S - blendFactor) + sCurve * blendFactor) \div S
      output == Clamp255(position + adjustment + ((blendedCurve - normalizedPos) * 255) \div 10)
  IN <<Round(position, S), Round(output, S)>>

\* smoothToneCurve(points): the curve as a sequence of <<input, output>> pairs
smoothToneCurve(points) ==
  LET sCurveStrength == SCurveStrength(points)
      numPoints == NumPoints(points)
      combined == points \o ShoulderPoints(points)
      allPoints == SortBy(ByInput(combined), combined)
  IN [i \in 1..numPoints |-> CurvePoint(i - 1, allPoints, numPoints, sCurveStrength)]

(***************************************************************************)
(* Scalar estimators on stats.channels.  A channel is a record             *)
(* [mean, stdev, min, max]; mean and stdev are scaled by S.  Results that  *)
(* the code rounds are integers; exposure and temperature, which it does   *)
(* not round, are scaled by S.                                             *)
(***************************************************************************)
\* !x for a number x or undefined: true of 0, of NaN and of undefined
Falsy(x) == x = 0 \/ IsNaN(x) \/ x = undefinedStat

\* (r.mean + g.mean + b.mean) / 3
MeanLuminance(channels) == (channels[1].mean + channels[2].mean + channels[3].mean) \div 3

MaxMean(channels) == Max2(channels[1].mean, Max2(channels[2].mean, channels[3].mean))

MinMean(channels) == Min2(channels[1].mean, Min2(channels[2].mean, channels[3].mean))

NoMean(channels) ==
  Len(channels) < 3 \/ Falsy(channels[1].mean) \/ Falsy(channels[2].mean) \/ Falsy(channels[3].mean)

\* variant of calculateExposure centred on 127.5
ExposureAroundHalf(channels) ==
  IF NoMean(channels) THEN 0
  ELSE ((MeanLuminance(channels) * 2 - 255 * S) * 5) \div 255

calculateExposure(channels) ==
  IF NoMean(channels) THEN 0
  ELSE ((MeanLuminance(channels) - 128 * S) * 5) \div 128

calculateContrast(channels) ==
  IF Len(channels) < 3 \/ Falsy(channels[1].stdev) \/ Falsy(channels[2].stdev) \/ Falsy(channels[3].stdev)
  THEN 0
  ELSE Round((((channels[1].stdev + channels[2].stdev + channels[3].stdev) \div 3) * 50) \div 128, S)

calculateBrightness(channels) ==
  IF NoMean(channels) THEN 0
  ELSE Round((MeanLuminance(channels) * 100) \div 255, S)

calculateSaturation(channels) ==
  IF NoMean(channels) THEN 0
  ELSE Round(((MaxMean(channels) - MinMean(channels)) * S) \div MaxMean(channels), 10)

calculateVibrance(channels) ==
  IF NoMean(channels) THEN 0
  ELSE LET avgSaturation == calculateSaturation(channels)
           colorfulness == ((MaxMean(channels) - MinMean(channels)) * S) \div MaxMean(channels)
       IN Round(colorfulness - avgSaturation * 10, 10)

calculateColorTemperature(channels) ==
  IF NoMean(channels) THEN 5500 * S
  ELSE LET blueRatio == (channels[3].mean * 2 * S) \div (channels[1].mean + channels[2].mean)
       IN 5500 * S + (blueRatio - S) * 1000

calculateTint(channels) ==
  IF NoMean(channels) THEN 0
  ELSE LET greenRatio == (channels[2].mean * 2 * S) \div (channels[1].mean + channels[3].mean)
       IN Round((greenRatio - S) * 20, S)

calculateShadowTint(channels) ==
  IF Len(channels) < 3 \/ Falsy(channels[1].min) \/ Falsy(channels[2].min) \/ Falsy(channels[3].min)
  THEN 0
  ELSE LET shadowColorBalance ==
             ((channels[2].min * S) \div channels[1].min + (channels[3].min * S) \div channels[1].min) \div 2
       IN Round((shadowColorBalance - S) * 20, S)

\* channels.reduce((acc, c) => acc + c.stdev, 0) / channels.length
MeanStdev(channels) ==
  SumTo([k \in 1..Len(channels) |-> channels[k].stdev], 1, Len(channels)) \div Len(channels)

calculateColorNoiseReduction(channels) == Round((MeanStdev(channels) * 50) \div 128, S)

calculateLuminanceSmoothing(channels) == Round((MeanStdev(channels) * 50) \div 128, S)

calculateClarity(channels) == Round((MeanStdev(channels) * 30) \div 128, S)

calculateTexture(channels) == Round((MeanStdev(channels) * 40) \div 128, S)

calculateDehaze(channels) == Round(((S - MeanStdev(channels) \div 128) * 30), S)

\* metadata.density ? Math.min(Math.round(metadata.density / 100), 100) : 40
calculateSharpness(density) == IF density = 0 THEN 40 ELSE Min2(Round(density * S, 100 * S), 100)

\* (centerWeight - edgeWeight) / centerWeight summed over the channels and
\* divided by their number, times 50, rounded; 0 / 0 is NaN
calculateVignetteAmount(channels) ==
  LET n == Len(channels)
      term(k) == FDiv(channels[k].mean - channels[k].min * S, channels[k].mean, S)
      RECURSIVE Acc(_)
      Acc(k) == IF k = 0 THEN 0 ELSE FAdd(Acc(k - 1), term(k))
      edgeDarkening == IF IsNaN(Acc(n)) THEN NaN ELSE Acc(n) \div n
  IN FRound(IF IsNaN(edgeDarkening) THEN NaN ELSE edgeDarkening * 50, S)

calculateShadows(channels) ==
  LET shadowValues == {IF channels[k].mean < 64 * S THEN (64 * S - channels[k].mean) \div 64 ELSE 0 :
                         k \in 1..Len(channels)}
  IN Round(SetMax(shadowValues) * 50, S)

calculateHighlights(channels) ==
  LET highlightValues == {IF channels[k].mean > 192 * S THEN (channels[k].mean - 192 * S) \div 63 ELSE 0 :
                            k \in 1..Len(channels)}
  IN Round(SetMax(highlightValues) * 50, S)

\* Math.round((1 - shadowIntensity) * 25), the intensity averaged over the channels
calculateParametricShadows(channels) ==
  LET n == Len(channels)
      term(k) == IF channels[k].mean < 64 * S THEN channels[k].mean \div 64 ELSE S
  IN Round((S - SumTo([k \in 1..n |-> term(k)], 1, n) \div n) * 25, S)

calculateParametricDarks(channels) ==
  LET n == Len(channels)
      term(k) == IF channels[k].mean < 96 * S THEN channels[k].mean \div 96 ELSE S
  IN Round((S - SumTo([k \in 1..n |-> term(k)], 1, n) \div n) * 25, S)

calculateParametricLights(channels) ==
  LET n == Len(channels)
      term(k) == IF channels[k].mean > 160 * S THEN (255 * S - channels[k].mean) \div 95 ELSE S
  IN Round((S - SumTo([k \in 1..n |-> term(k)], 1, n) \div n) * 25, S)

calculateParametricHighlights(channels) ==
  LET n == Len(channels)
      term(k) == IF channels[k].mean > 192 * S THEN (255 * S - channels[k].mean) \div 63 ELSE S
  IN Round((S - SumTo([k \in 1..n |-> term(k)], 1, n) \div n) * 25, S)

\* variant of ParametricSplit that moves the split by up to 20 either way
WideSplit(channels, base) ==
  IF NoMean(channels) THEN base
  ELSE Round(base * S + (MeanLuminance(channels) \div 255 - S \div 2) * 40, S)

\* Math.round(base + (meanLuminance / 255 - 0.5) * 20), base 25, 50 or 75
ParametricSplit(channels, base) ==
  IF NoMean(channels) THEN base
  ELSE Round(base * S + (MeanLuminance(channels) \div 255 - S \div 2) * 20, S)

calculateParametricShadowSplit(channels) == ParametricSplit(channels, 25)

calculateParametricMidtoneSplit(channels) == ParametricSplit(channels, 50)

calculateParametricHighlightSplit(channels) == ParametricSplit(channels, 75)

calculateToneMapStrength(channels) ==
  IF \/ NoMean(channels)
     \/ \E k \in 1..3 : Falsy(channels[k].max) \/ Falsy(channels[k].min) \/ Falsy(channels[k].stdev)
  THEN 0
  ELSE LET maxLum == SetMax({channels[k].max : k \in 1..3})
           minLum == SetMin({channels[k].min : k \in 1..3})
           dynamicRange == maxLum - minLum
           contrastVar == (channels[1].stdev + channels[2].stdev + channels[3].stdev) \div 3
           strength == Round(((dynamicRange * S) \div 255 + contrastVar \div 128) * 50, S)
       IN Min2(Max2(strength, 0), 100)

\* shadowColors.indexOf(Math.max(...shadowColors)): the first index (from 0) of the maximum
IndexOfMax(vals) ==
  LET m == SetMax({vals[k] : k \in 1..Len(vals)})
  IN SetMin({k \in 1..Len(vals) : vals[k] = m}) - 1

Mins(channels) == [k \in 1..Len(channels) |-> channels[k].min]

Maxs(channels) == [k \in 1..Len(channels) |-> channels[k].max]

calculateSplitToningShadowHue(channels) == Round((IndexOfMax(Mins(channels)) * 360 * S) \div 3, S)

calculateSplitToningHighlightHue(channels) == Round((IndexOfMax(Maxs(channels)) * 360 * S) \div 3, S)

\* Math.round(((max - min) / max) * 100) over the channel values; 0 / 0 is NaN
SplitSaturation(vals) ==
  LET mx == SetMax({vals[k] : k \in 1..Len(vals)})
      mn == SetMin({vals[k] : k \in 1..Len(vals)})
      q  == FDiv(mx - mn, mx, S)
  IN FRound(IF IsNaN(q) THEN NaN ELSE q * 100, S)

calculateSplitToningShadowSaturation(channels) == SplitSaturation(Mins(channels))

calculateSplitToningHighlightSaturation(channels) == SplitSaturation(Maxs(channels))

calculateSplitToningBalance(channels) ==
  LET n == Len(channels)
      avgShadow == (SumTo(Mins(channels), 1, n) * S) \div n
      avgHighlight == (SumTo(Maxs(channels), 1, n) * S) \div n
  IN Round(((avgHighlight - avgShadow) * 100) \div 255, S)

(***************************************************************************)
(* Tone curves of the three channels and their luminance-weighted blend.   *)
(***************************************************************************)
DEFAULT_TONE_CURVE == << <<0, 0>>, <<255, 255>> >>

\* luminanceWeights = [0.299, 0.587, 0.114], scaled by S
luminanceWeights == <<299, 587, 114>>

\* the points of one channel with each weight multiplied by its luminance weight
WeightedPoints(pts, weight) ==
  [k \in 1..Len(pts) |->
     [input |-> pts[k].input, output |-> pts[k].output, weight |-> (pts[k].weight * weight) \div S]]

\* the four statistics of a channel are numbers
NumericStats(channel) ==
  IsNumber(channel.mean) /\ IsNumber(channel.stdev) /\ IsNumber(channel.min) /\ IsNumber(channel.max)

\* variant of calculateToneCurveFromPoints without the validation of the statistics
CurveWithoutValidation(channelPoints, channels) ==
  IF Len(channels) < 3 THEN DEFAULT_TONE_CURVE
  ELSE smoothToneCurve(WeightedPoints(channelPoints[1], luminanceWeights[1])
                       \o WeightedPoints(channelPoints[2], luminanceWeights[2])
                       \o WeightedPoints(channelPoints[3], luminanceWeights[3]))

calculateToneCurveFromPoints(channelPoints, channels) ==
  IF Len(channels) < 3 THEN DEFAULT_TONE_CURVE
  ELSE IF \E k \in 1..Len(channels) : ~NumericStats(channels[k]) THEN DEFAULT_TONE_CURVE
  ELSE smoothToneCurve(WeightedPoints(channelPoints[1], luminanceWeights[1])
                       \o WeightedPoints(channelPoints[2], luminanceWeights[2])
                       \o WeightedPoints(channelPoints[3], luminanceWeights[3]))

\* findSignificantTonePointsFromHistogram(getChannelHistogram(buffer, ch))
ChannelPoints(img, channels, ch) ==
  findSignificantTonePointsFromHistogram(getChannelHistogram(ChannelData(img, ch), channels[ch]))

\* findSignificantTonePointsFromHistogram always returns an array, so the
\* branch that hands back four default curves is never taken
calculateAllToneCurves(channels, img) ==
  LET channelPoints == <<ChannelPoints(img, channels, 1), ChannelPoints(img, channels, 2),
                         ChannelPoints(img, channels, 3)>>
  IN [toneCurve      |-> calculateToneCurveFromPoints(channelPoints, channels),
      toneCurveRed   |-> smoothToneCurve(channelPoints[1]),
      toneCurveGreen |-> smoothToneCurve(channelPoints[2]),
      toneCurveBlue  |-> smoothToneCurve(channelPoints[3])]

(***************************************************************************)
(* 3x3 matrices, rows of three entries scaled by S.                        *)
(***************************************************************************)
IDENTITY_MATRIX == << <<S, 0, 0>>, <<0, S, 0>>, <<0, 0, S>> >>

\* variant of multiplyMatrices that reads b by rows
MultiplyByRows(a, b) ==
  LET e(i, j) == (a[i][1] * b[j][1] + a[i][2] * b[j][2] + a[i][3] * b[j][3]) \div S
  IN << <<e(1, 1), e(1, 2), e(1, 3)>>,
        <<e(2, 1), e(2, 2), e(2, 3)>>,
        <<e(3, 1), e(3, 2), e(3, 3)>> >>

\* entry (i, j) is a[i][0] * b[0][j] + a[i][1] * b[1][j] + a[i][2] * b[2][j]
multiplyMatrices(a, b) ==
  LET e(i, j) == (a[i][1] * b[1][j] + a[i][2] * b[2][j] + a[i][3] * b[3][j]) \div S
  IN << <<e(1, 1), e(1, 2), e(1, 3)>>,
        <<e(2, 1), e(2, 2), e(2, 3)>>,
        <<e(3, 1), e(3, 2), e(3, 3)>> >>

\* hue in whole degrees, saturation in percent
calculateHueSaturationMatrix(hue, saturation) ==
  LET cosH == CosInt(hue)
      sinH == SinInt(hue)
      satFactor == S + saturation * 10
      cs == (cosH * satFactor) \div S
  IN << <<213 + (cs * 787) \div S,
          213 - (cs * 213) \div S + (sinH * 143) \div S,
          213 - (cs * 213) \div S - (sinH * 787) \div S>>,
        <<715 - (cs * 715) \div S - (sinH * 715) \div S,
          715 + (cs * 285) \div S,
          715 - (cs * 715) \div S + (sinH * 715) \div S>>,
        <<72 - (cs * 72) \div S + (sinH * 928) \div S,
          72 - (cs * 72) \div S - (sinH * 283) \div S,
          72 + (cs * 928) \div S>> >>

\* hue || saturation
Adjusted(properties, color) == ~Falsy(properties.hue[color]) \/ ~Falsy(properties.saturation[color])

\* calculateHueSaturationMatrix(hue || 0, saturation || 0) of one band
BandMatrix(properties, color) ==
  calculateHueSaturationMatrix(IF Falsy(properties.hue[color]) THEN 0 ELSE properties.hue[color],
                               IF Falsy(properties.saturation[color]) THEN 0 ELSE properties.saturation[color])

\* variant of ComposeBands that multiplies the band matrix from the left
RECURSIVE ComposeBandsLeft(_, _)
ComposeBandsLeft(properties, k) ==
  IF k = 0 THEN IDENTITY_MATRIX
  ELSE IF Adjusted(properties, Bands[k])
       THEN multiplyMatrices(BandMatrix(properties, Bands[k]), ComposeBandsLeft(properties, k - 1))
       ELSE ComposeBandsLeft(properties, k - 1)

\* the forEach over colorRanges, after its first k entries
RECURSIVE ComposeBands(_, _)
ComposeBands(properties, k) ==
  IF k = 0 THEN IDENTITY_MATRIX
  ELSE IF Adjusted(properties, Bands[k])
       THEN multiplyMatrices(ComposeBands(properties, k - 1), BandMatrix(properties, Bands[k]))
       ELSE ComposeBands(properties, k - 1)

\* properties.hue[band] and properties.saturation[band] stand for the
\* fields redHue, redSaturation, ... of ImageProperties
calculateColorMatrixFromProperties(properties) == ComposeBands(properties, Len(Bands))

(***************************************************************************)
(* convertToneCurveToMatrix.  A curve is a sequence of <<input, output>>   *)
(* pairs of integers; the slope is scaled by S.                            *)
(***************************************************************************)
\* +Infinity, the quotient of a positive number by 0
Infinity == 0 - NaN

\* (lastPoint[1] - firstPoint[1]) / (lastPoint[0] - firstPoint[0])
AvgSlope(firstPoint, lastPoint) ==
  LET dy == lastPoint[2] - firstPoint[2]
      dx == lastPoint[1] - firstPoint[1]
  IN IF dx # 0 THEN (dy * S) \div dx
     ELSE IF dy = 0 THEN NaN
     ELSE IF dy > 0 THEN Infinity ELSE 0 - Infinity

convertToneCurveToMatrix(tc) ==
  IF Len(tc) < 2 THEN <<S, 0, 0>>
  ELSE LET firstPoint == tc[1]
           lastPoint == tc[Len(tc)]
       IN IF Falsy(firstPoint[1]) \/ Falsy(firstPoint[2]) \/ Falsy(lastPoint[1]) \/ Falsy(lastPoint[2])
          THEN <<S, 0, 0>>
          ELSE <<AvgSlope(firstPoint, lastPoint), 0, 0>>

(***************************************************************************)
(* generateCUBELUT.  Colour components are in [0, 1] scaled by S; a data   *)
(* line is the triple <<r, g, b>> of the components formatLUTPoint prints  *)
(* (its six decimals are finer than the scale S, so it prints the value    *)
(* the model holds).  Curve coordinates are integers.                      *)
(***************************************************************************)
\* grid points per axis: 32 in the code (part_002:171), fewer here
LUT_SIZE == 3

MAX_CONTRAST_FACTOR == 5

RECURSIVE CurveSegment(_, _, _)
\* the loop of applyToneCurve from segment i on: the first segment that
\* holds the value interpolates it, and a value in no segment is returned as is
CurveSegment(value, toneCurve, i) ==
  IF i > Len(toneCurve) - 1 THEN value
  ELSE LET x1 == toneCurve[i][1]
           y1 == toneCurve[i][2]
           x2 == toneCurve[i + 1][1]
           y2 == toneCurve[i + 1][2]
       IN IF value * 255 >= x1 * S /\ value * 255 <= x2 * S
          THEN IF x2 = x1 THEN NaN
               ELSE (y1 * S + ((value * 255 - x1 * S) * (y2 - y1)) \div (x2 - x1)) \div 255
          ELSE CurveSegment(value, toneCurve, i + 1)

\* applyToneCurve(value, curve); an absent curve is << >>
applyToneCurve(value, tc) == CurveSegment(value, IF tc = << >> THEN DEFAULT_TONE_CURVE ELSE tc, 1)

applyColorMatrix(point, matrix) ==
  [r |-> (point.r * matrix[1][1] + point.g * matrix[1][2] + point.b * matrix[1][3]) \div S,
   g |-> (point.r * matrix[2][1] + point.g * matrix[2][2] + point.b * matrix[2][3]) \div S,
   b |-> (point.r * matrix[3][1] + point.g * matrix[3][2] + point.b * matrix[3][3]) \div S]

applyToneCurves(point, props) ==
  [r |-> applyToneCurve(point.r, props.toneCurveRed),
   g |-> applyToneCurve(point.g, props.toneCurveGreen),
   b |-> applyToneCurve(point.b, props.toneCurveBlue)]

\* calculateProcessingFactors: exposure and contrast are whole numbers here.
\* Math.pow(2, e / 2) and Math.min(5, Math.tan((c + 100) * PI / 400)), scaled by S
calculateProcessingFactors(props) ==
  LET e == Max2(0 - 10, Min2(10, props.exposure))
      c == Max2(0 - 100, Min2(100, props.contrast))
      h == e \div 2
      whole == IF h >= 0 THEN S * 2 ^ h ELSE S \div 2 ^ (0 - h)
      angle == (c + 100) * 45
      cosine == SinDeg(90 * H - angle)
  IN [exposure |-> IF e % 2 = 0 THEN whole ELSE (whole * 1414) \div S,
      contrast |-> IF cosine = 0 THEN MAX_CONTRAST_FACTOR * S
                   ELSE Min2(MAX_CONTRAST_FACTOR * S, (SinDeg(angle) * S) \div cosine)]

\* Math.max(0, Math.min(1, value * exposure * contrast)); both compare false
\* with NaN, which comes out as it went in
applyFactors(point, factors) ==
  LET applyFactor(value) ==
        IF IsNaN(value) THEN NaN
        ELSE Max2(0, Min2(S, (((value * factors.exposure) \div S) * factors.contrast) \div S))
  IN [r |-> applyFactor(point.r), g |-> applyFactor(point.g), b |-> applyFactor(point.b)]

\* the body of the innermost loop: the line of grid point (r, g, b)
LutLine(r, g, b, props, colorMatrix) ==
  LET point == [r |-> (r * S) \div (LUT_SIZE - 1), g |-> (g * S) \div (LUT_SIZE - 1),
                b |-> (b * S) \div (LUT_SIZE - 1)]
      out == applyFactors(applyToneCurves(applyColorMatrix(point, colorMatrix), props),
                          calculateProcessingFactors(props))
  IN <<out.r, out.g, out.b>>

\* variant of NextLutIndex in which b is the innermost counter
BlueInnermost(idx) ==
  IF idx.b + 1 < LUT_SIZE THEN [idx EXCEPT !.b = idx.b + 1]
  ELSE IF idx.g + 1 < LUT_SIZE THEN [b |-> 0, g |-> idx.g + 1, r |-> idx.r]
  ELSE [b |-> 0, g |-> 0, r |-> idx.r + 1]

\* the three nested for loops: r is the innermost counter, b the outermost;
\* b = LUT_SIZE ends the loops
NextLutIndex(idx) ==
  IF idx.r + 1 < LUT_SIZE THEN [idx EXCEPT !.r = idx.r + 1]
  ELSE IF idx.g + 1 < LUT_SIZE THEN [b |-> idx.b, g |-> idx.g + 1, r |-> 0]
  ELSE [b |-> idx.b + 1, g |-> 0, r |-> 0]

(***************************************************************************)
(* The metadata document: generateXMPCRS, validateXMPContent, parseXMPData *)
(* and parseXMPAdjustments.                                                *)
(*                                                                         *)
(* A JavaScript value is a record [type, num, str, bool, pts, li] of which *)
(* the field named by its type counts; numbers are scaled by S.  A text is *)
(* a string.  The decimal text of a number is tabulated for the numbers    *)
(* that occur (NumberTexts).  The document is kept as its parts: whether   *)
(* it starts with an XML declaration, its root tag, and the children of    *)
(* rdf:Description in order.                                               *)
(***************************************************************************)
JsValue(t, n, s, b, p, l) == [type |-> t, num |-> n, str |-> s, bool |-> b, pts |-> p, li |-> l]

Num(n) == JsValue("number", n, "", FALSE, << >>, << >>)

Str(s) == JsValue("string", 0, s, FALSE, << >>, << >>)

Bool(b) == JsValue("boolean", 0, "", b, << >>, << >>)

\* a tone curve: number[][]
Pts(p) == JsValue("curve", 0, "", FALSE, p, << >>)

\* a parsed element with an rdf:Seq of rdf:li entries; each text "x, y" is
\* kept as the sequence of its parts between the commas
Node(l) == JsValue("node", 0, "", FALSE, << >>, l)

Undefined == JsValue("undefined", 0, "", FALSE, << >>, << >>)

\* numbers and their decimal texts: String(n) gives the text, parseFloat the number
NumberTexts ==
  {<<0, "0">>, <<500, "0.5">>, <<0 - 8000, "-8">>, <<15000, "15">>, <<25000, "25">>,
   <<128000, "128">>, <<160000, "160">>, <<255000, "255">>, <<NaN, "NaN">>}

\* String(value)
ToText(v) ==
  CASE v.type = "string" -> v.str
    [] v.type = "boolean" -> IF v.bool THEN "true" ELSE "false"
    [] v.type = "number" -> (CHOOSE p \in NumberTexts : p[1] = v.num)[2]
    [] OTHER -> "undefined"

\* parseFloat(text): "15.0" is the one numeric text that is not the decimal
\* text of its number
parseFloat(text) ==
  IF text = "15.0" THEN 15000
  ELSE IF \E p \in NumberTexts : p[2] = text THEN (CHOOSE p \in NumberTexts : p[2] = text)[1]
  ELSE NaN

\* the value the XML parser gives a text node under parseTagValue: true and
\* false become booleans, a number text becomes the number, the rest stays text
ParseTagValue(text) ==
  IF text = "true" THEN Bool(TRUE)
  ELSE IF text = "false" THEN Bool(FALSE)
  ELSE IF text # "NaN" /\ ~IsNaN(parseFloat(text)) THEN Num(parseFloat(text))
  ELSE Str(text)

\* simpleProps of generateXMPCRS: <<element name, property>> in the order written
SimpleProps ==
  <<
    <<"crs:Version", "version">>, <<"crs:ProcessVersion", "processVersion">>,
    <<"crs:WhiteBalance", "whiteBalance">>, <<"crs:Temperature", "temperature">>,
    <<"crs:Tint", "tint">>, <<"crs:Exposure", "exposure">>, <<"crs:Shadows", "shadows">>,
    <<"crs:Highlights", "highlights">>, <<"crs:Contrast", "contrast">>,
    <<"crs:Saturation", "saturation">>, <<"crs:Sharpness", "sharpness">>,
    <<"crs:LuminanceSmoothing", "luminanceSmoothing">>,
    <<"crs:ColorNoiseReduction", "colorNoiseReduction">>,
    <<"crs:VignetteAmount", "vignetteAmount">>, <<"crs:ShadowTint", "shadowTint">>,
    <<"crs:HueAdjustmentRed", "redHue">>, <<"crs:SaturationAdjustmentRed", "redSaturation">>,
    <<"crs:HueAdjustmentOrange", "orangeHue">>,
    <<"crs:SaturationAdjustmentOrange", "orangeSaturation">>,
    <<"crs:HueAdjustmentYellow", "yellowHue">>,
    <<"crs:SaturationAdjustmentYellow", "yellowSaturation">>,
    <<"crs:HueAdjustmentGreen", "greenHue">>,
    <<"crs:SaturationAdjustmentGreen", "greenSaturation">>, <<"crs:HueAdjustmentAqua", "aquaHue">>,
    <<"crs:SaturationAdjustmentAqua", "aquaSaturation">>, <<"crs:HueAdjustmentBlue", "blueHue">>,
    <<"crs:SaturationAdjustmentBlue", "blueSaturation">>,
    <<"crs:HueAdjustmentPurple", "purpleHue">>,
    <<"crs:SaturationAdjustmentPurple", "purpleSaturation">>,
    <<"crs:HueAdjustmentMagenta", "magentaHue">>,
    <<"crs:SaturationAdjustmentMagenta", "magentaSaturation">>,
    <<"crs:SplitToningShadowHue", "splitToningShadowHue">>,
    <<"crs:SplitToningShadowSaturation", "splitToningShadowSaturation">>,
    <<"crs:SplitToningHighlightHue", "splitToningHighlightHue">>,
    <<"crs:SplitToningHighlightSaturation", "splitToningHighlightSaturation">>,
    <<"crs:SplitToningBalance", "splitToningBalance">>, <<"crs:Clarity", "clarity">>,
    <<"crs:Dehaze", "dehaze">>, <<"crs:Vibrance", "vibrance">>,
    <<"crs:ParametricShadows", "parametricShadows">>, <<"crs:ParametricDarks", "parametricDarks">>,
    <<"crs:ParametricLights", "parametricLights">>,
    <<"crs:ParametricHighlights", "parametricHighlights">>,
    <<"crs:ParametricShadowSplit", "parametricShadowSplit">>,
    <<"crs:ParametricMidtoneSplit", "parametricMidtoneSplit">>,
    <<"crs:ParametricHighlightSplit", "parametricHighlightSplit">>, <<"crs:Texture", "texture">>,
    <<"crs:ToneMapStrength", "toneMapStrength">>, <<"crs:CameraProfile", "cameraProfile">>,
    <<"crs:CameraProfileDigest", "cameraProfileDigest">>, <<"crs:HasSettings", "hasSettings">>,
    <<"crs:HasCrop", "hasCrop">>, <<"crs:AlreadyApplied", "alreadyApplied">>,
    <<"crs:ToneCurveName", "toneCurveName">>
  >>

\* the four addToneCurve calls
CurveProps ==
  << <<"crs:ToneCurvePV2012", "toneCurve">>, <<"crs:ToneCurvePV2012Red", "toneCurveRed">>,
     <<"crs:ToneCurvePV2012Green", "toneCurveGreen">>, <<"crs:ToneCurvePV2012Blue", "toneCurveBlue">> >>

\* CRS_PROPERTY_MAP: <<property, element name>>
CRS_PROPERTY_MAP ==
  <<
    <<"version", "crs:Version">>, <<"processVersion", "crs:ProcessVersion">>,
    <<"exposure", "crs:Exposure">>, <<"contrast", "crs:Contrast">>,
    <<"brightness", "crs:Brightness">>, <<"shadows", "crs:Shadows">>,
    <<"highlights", "crs:Highlights">>, <<"whites", "crs:Whites">>, <<"blacks", "crs:Blacks">>,
    <<"temperature", "crs:Temperature">>, <<"tint", "crs:Tint">>,
    <<"saturation", "crs:Saturation">>, <<"vibrance", "crs:Vibrance">>,
    <<"texture", "crs:Texture">>, <<"clarity", "crs:Clarity">>, <<"dehaze", "crs:Dehaze">>,
    <<"sharpness", "crs:Sharpness">>, <<"luminanceSmoothing", "crs:LuminanceSmoothing">>,
    <<"colorNoiseReduction", "crs:ColorNoiseReduction">>, <<"shadowTint", "crs:ShadowTint">>,
    <<"toneMapStrength", "crs:ToneMapStrength">>, <<"redHue", "crs:HueAdjustmentRed">>,
    <<"redSaturation", "crs:SaturationAdjustmentRed">>, <<"orangeHue", "crs:HueAdjustmentOrange">>,
    <<"orangeSaturation", "crs:SaturationAdjustmentOrange">>,
    <<"yellowHue", "crs:HueAdjustmentYellow">>,
    <<"yellowSaturation", "crs:SaturationAdjustmentYellow">>,
    <<"greenHue", "crs:HueAdjustmentGreen">>,
    <<"greenSaturation", "crs:SaturationAdjustmentGreen">>, <<"aquaHue", "crs:HueAdjustmentAqua">>,
    <<"aquaSaturation", "crs:SaturationAdjustmentAqua">>, <<"blueHue", "crs:HueAdjustmentBlue">>,
    <<"blueSaturation", "crs:SaturationAdjustmentBlue">>,
    <<"purpleHue", "crs:HueAdjustmentPurple">>,
    <<"purpleSaturation", "crs:SaturationAdjustmentPurple">>,
    <<"magentaHue", "crs:HueAdjustmentMagenta">>,
    <<"magentaSaturation", "crs:SaturationAdjustmentMagenta">>,
    <<"splitToningShadowHue", "crs:SplitToningShadowHue">>,
    <<"splitToningShadowSaturation", "crs:SplitToningShadowSaturation">>,
    <<"splitToningHighlightHue", "crs:SplitToningHighlightHue">>,
    <<"splitToningHighlightSaturation", "crs:SplitToningHighlightSaturation">>,
    <<"splitToningBalance", "crs:SplitToningBalance">>,
    <<"parametricShadows", "crs:ParametricShadows">>, <<"parametricDarks", "crs:ParametricDarks">>,
    <<"parametricLights", "crs:ParametricLights">>,
    <<"parametricHighlights", "crs:ParametricHighlights">>,
    <<"parametricShadowSplit", "crs:ParametricShadowSplit">>,
    <<"parametricMidtoneSplit", "crs:ParametricMidtoneSplit">>,
    <<"parametricHighlightSplit", "crs:ParametricHighlightSplit">>,
    <<"vignetteAmount", "crs:VignetteAmount">>, <<"vignetteFeather", "crs:VignetteFeather">>,
    <<"vignetteMidpoint", "crs:VignetteMidpoint">>, <<"grainAmount", "crs:GrainAmount">>,
    <<"grainSize", "crs:GrainSize">>, <<"grainFrequency", "crs:GrainFrequency">>,
    <<"toneCurve", "crs:ToneCurvePV2012">>, <<"toneCurveRed", "crs:ToneCurvePV2012Red">>,
    <<"toneCurveGreen", "crs:ToneCurvePV2012Green">>,
    <<"toneCurveBlue", "crs:ToneCurvePV2012Blue">>, <<"toneCurveName", "crs:ToneCurveName">>,
    <<"cameraProfile", "crs:CameraProfile">>, <<"cameraProfileDigest", "crs:CameraProfileDigest">>,
    <<"hasSettings", "crs:HasSettings">>, <<"hasCrop", "crs:HasCrop">>,
    <<"alreadyApplied", "crs:AlreadyApplied">>, <<"whiteBalance", "crs:WhiteBalance">>
  >>

\* desc.ele(key).txt(String(value))
SimpleElement(key, value) == [name |-> key, text |-> ToText(value), seq |-> FALSE, li |-> << >>]

\* addToneCurve(name, points): nothing for an absent curve, else an rdf:Seq
\* with one rdf:li of text `${x}, ${y}` per point
addToneCurve(name, curve) ==
  IF curve.type = "undefined" THEN << >>
  ELSE << [name |-> name, text |-> "", seq |-> TRUE,
           li |-> [i \in 1..Len(curve.pts) |->
                     <<ToText(Num(curve.pts[i][1])), ToText(Num(curve.pts[i][2]))>>]] >>

\* generateXMPCRS(filename, properties); doc.end({ headless: true }) leaves
\* out the XML declaration
generateXMPCRS(props) ==
  [declaration |-> FALSE,
   root |-> "x:xmpmeta",
   elements |-> [i \in 1..Len(SimpleProps) |-> SimpleElement(SimpleProps[i][1], props[SimpleProps[i][2]])]
                \o addToneCurve(CurveProps[1][1], props[CurveProps[1][2]])
                \o addToneCurve(CurveProps[2][1], props[CurveProps[2][2]])
                \o addToneCurve(CurveProps[3][1], props[CurveProps[3][2]])
                \o addToneCurve(CurveProps[4][1], props[CurveProps[4][2]])]

\* content.includes(`crs:${elem}`): element and attribute texts are escaped
\* and hold no tag of their own, so the search finds element names
HasElement(doc, name) == \E i \in 1..Len(doc.elements) : doc.elements[i].name = name

validateXMPContent(doc) ==
  IF ~doc.declaration \/ doc.root # "x:xmpmeta"
  THEN [isValid |-> FALSE, error |-> "Invalid XMP format: missing XML declaration or xmpmeta tag"]
  ELSE IF doc.elements = << >>
  THEN [isValid |-> FALSE, error |-> "Invalid XMP format: missing Camera Raw Settings namespace"]
  ELSE IF \E elem \in {"crs:ProcessVersion", "crs:Version", "crs:WhiteBalance"} : ~HasElement(doc, elem)
  THEN [isValid |-> FALSE, error |-> "Invalid XMP format: missing required elements"]
  ELSE [isValid |-> TRUE, error |-> ""]

\* parseXMPData(xmpString)[crsKey]: the parsed child of rdf:Description of that name
CrsValue(doc, crsKey) ==
  IF ~HasElement(doc, crsKey) THEN Undefined
  ELSE LET e == doc.elements[CHOOSE i \in 1..Len(doc.elements) : doc.elements[i].name = crsKey]
       IN IF e.seq THEN Node(e.li) ELSE ParseTagValue(e.text)

parseCRSValue(value, type) ==
  IF value.type = "undefined"
  THEN IF type = "number" THEN Num(0) ELSE IF type = "boolean" THEN Bool(FALSE) ELSE Str("")
  ELSE IF type = "boolean" THEN Bool(ToText(value) = "True")
  ELSE IF type = "number"
  THEN LET num == parseFloat(ToText(value)) IN Num(IF IsNaN(num) THEN 0 ELSE num)
  ELSE Str(ToText(value))

\* the k-th value of point.split(",").map(...): parseFloat of the trimmed part,
\* with NaN standing for the null the code puts in its place, and undefined
\* when the entry has fewer parts
PartNumber(parts, k) == IF k > Len(parts) THEN undefinedStat ELSE parseFloat(parts[k])

\* parseToneCurve(curve): no points for an absent or empty rdf:Seq.  An
\* rdf:li entry is the sequence of the texts between its commas, the empty
\* sequence for an entry that is not a string; [x, y] is kept when neither x
\* nor y is null
parseToneCurve(node) ==
  IF node.type # "node" \/ node.li = << >> THEN Undefined
  ELSE LET Valid(parts) ==
             parts # << >> /\ ~IsNaN(PartNumber(parts, 1)) /\ ~IsNaN(PartNumber(parts, 2))
           valid == SelectSeq(node.li, Valid)
       IN IF valid = << >> THEN Undefined
          ELSE Pts([i \in 1..Len(valid) |-> <<PartNumber(valid[i], 1), PartNumber(valid[i], 2)>>])

\* how parseXMPAdjustments reads a property
PropertyKind(prop) ==
  IF prop \in {"hasCrop", "hasSettings", "alreadyApplied"} THEN "boolean"
  ELSE IF prop \in {"whiteBalance", "cameraProfile", "cameraProfileDigest", "processVersion", "toneCurveName"}
  THEN "string"
  ELSE IF prop \in {"toneCurve", "toneCurveRed", "toneCurveGreen", "toneCurveBlue"} THEN "curve"
  ELSE "number"

\* parseXMPAdjustments(parseXMPData(xmpString)): a value per property of CRS_PROPERTY_MAP
parseXMPAdjustments(doc) ==
  [prop \in {CRS_PROPERTY_MAP[i][1] : i \in 1..Len(CRS_PROPERTY_MAP)} |->
     LET crsKey == CRS_PROPERTY_MAP[CHOOSE i \in 1..Len(CRS_PROPERTY_MAP) : CRS_PROPERTY_MAP[i][1] = prop][2]
         value == CrsValue(doc, crsKey)
     IN IF PropertyKind(prop) = "curve" THEN parseToneCurve(value)
        ELSE parseCRSValue(value, PropertyKind(prop))]

\* mapValue of createParametricCurve: the input x moved by the strength of
\* its region, rounded and kept in 0..255
mapValue(adj, x) ==
  LET shadowSplit == adj.parametricShadowSplit
      midtoneSplit == adj.parametricMidtoneSplit
      highlightSplit == adj.parametricHighlightSplit
      y == IF x <= shadowSplit
             THEN x * S + (x * adj.parametricShadows * S) \div 100
           ELSE IF x <= midtoneSplit
             THEN x * S + (x * adj.parametricDarks * (midtoneSplit - x) * S)
                            \div (100 * (midtoneSplit - shadowSplit))
           ELSE IF x <= highlightSplit
             THEN x * S + (x * adj.parametricLights * (x - midtoneSplit) * S)
                            \div (100 * (highlightSplit - midtoneSplit))
           ELSE x * S + (x * adj.parametricHighlights * S) \div 100
  IN Max2(0, Min2(255, Round(y, S)))

\* the five curve points at 0, the three splits and 255
createParametricCurve(adj) ==
  << <<0, mapValue(adj, 0)>>,
     <<adj.parametricShadowSplit, mapValue(adj, adj.parametricShadowSplit)>>,
     <<adj.parametricMidtoneSplit, mapValue(adj, adj.parametricMidtoneSplit)>>,
     <<adj.parametricHighlightSplit, mapValue(adj, adj.parametricHighlightSplit)>>,
     <<255, mapValue(adj, 255)>> >>

\* image.recomb(matrix) on one pixel: output channel i is row i of the matrix
\* times the input pixel, rounded into 0..255
recomb(matrix, rgb) ==
  LET out(i) == Round(matrix[i][1] * rgb[1] + matrix[i][2] * rgb[2] + matrix[i][3] * rgb[3], S)
  IN <<Max2(0, Min2(255, out(1))), Max2(0, Min2(255, out(2))), Max2(0, Min2(255, out(3)))>>

\* toneCurveX ? convertToneCurveToMatrix(toneCurveX)
\*            : convertToneCurveToMatrix(toneCurve || [[0, 0], [255, 255]])
ChannelRow(channelCurve, toneCurve) ==
  IF channelCurve # << >> THEN convertToneCurveToMatrix(channelCurve)
  ELSE IF toneCurve # << >> THEN convertToneCurveToMatrix(toneCurve)
  ELSE convertToneCurveToMatrix(<< <<0, 0>>, <<255, 255>> >>)

(***************************************************************************)
(* Uploaded files and the temporary directory.  A file of the form data is *)
(* [name, type, size] with the name split into stem and extension and the  *)
(* size in MB; a path is the sequence of its components.                   *)
(***************************************************************************)
NoFile == [name |-> [stem |-> "", ext |-> ""], type |-> "", size |-> 0 - 1]

ALLOWED_IMAGE_TYPES == {"image/jpeg", "image/png", "image/tiff", "image/webp", "image/heic", "image/heif"}

ALLOWED_XMP_TYPES == {"application/xml", "text/xml", ".xmp"}

\* in MB
MAX_FILE_SIZE == 50

MAX_XMP_SIZE == 1

validateImageFile(file) ==
  /\ file # NoFile
  /\ file.name # [stem |-> "", ext |-> ""]
  /\ file.type \in ALLOWED_IMAGE_TYPES
  /\ file.size <= MAX_FILE_SIZE

validateXMPFile(file) ==
  /\ file # NoFile
  /\ file.name # [stem |-> "", ext |-> ""] /\ file.name.ext = ".xmp"
  /\ file.type \in ALLOWED_XMP_TYPES
  /\ file.size <= MAX_XMP_SIZE

\* path.join(tmpDir, image.name)
ImagePath(dir, image) == <<dir, image.name>>

\* path.join(tmpDir, `${path.parse(image.name).name}.xmp`)
XmpPath(dir, image) == <<dir, [stem |-> image.name.stem, ext |-> ".xmp"]>>

\* rm(tmpDir, { recursive: true, force: true }) when it succeeds
RemoveTree(fs, dir) == {f \in fs : f[1] # dir}

(***************************************************************************)
(* Circles.  Centre and radius are in 1/100 pixel, strength is scaled by S. *)
(***************************************************************************)
\* distance < (current.radius + otherCircle.radius) * 0.5, with both sides squared
Overlapping(current, otherCircle) ==
  LET dx == current.center.x - otherCircle.center.x
      dy == current.center.y - otherCircle.center.y
      reach == current.radius + otherCircle.radius
  IN 4 * (dx * dx + dy * dy) < reach * reach

\* the circle that replaces current when otherCircle is merged into it
MergedCircle(current, otherCircle) ==
  [center |-> [x |-> (current.center.x + otherCircle.center.x) \div 2,
               y |-> (current.center.y + otherCircle.center.y) \div 2],
   radius |-> (current.radius + otherCircle.radius) \div 2,
   strength |-> Max2(current.strength, otherCircle.strength)]

\* the inner loop of mergeOverlappingCircles from index j on: the circle built
\* so far, the indices used, and those merged into this circle
RECURSIVE MergeFrom(_, _, _, _, _)
MergeFrom(circleList, j, current, usedSet, members) ==
  IF j > Len(circleList) THEN [current |-> current, used |-> usedSet, members |-> members]
  ELSE IF j \in usedSet THEN MergeFrom(circleList, j + 1, current, usedSet, members)
  ELSE IF Overlapping(current, circleList[j])
    THEN MergeFrom(circleList, j + 1, MergedCircle(current, circleList[j]),
                   usedSet \cup {j}, members \cup {j})
  ELSE MergeFrom(circleList, j + 1, current, usedSet, members)

(***************************************************************************)
(* State.  One set of variables serves every specification below; a        *)
(* specification leaves the variables of the others at their initial,      *)
(* empty values.                                                           *)
(***************************************************************************)
VARIABLES
  pc,               \* position of the running operation
  buffer,           \* the uploaded image: [pixels, nchannels, density]
  channels,         \* stats.channels
  bandResults,      \* results of the band tasks settled so far, in task order
  toneCurves,       \* result of calculateAllToneCurves
  imageProperties,  \* the adjustment record
  band,             \* colour name handed to the band estimators
  distribution,     \* result of analyzeColorDistribution
  colorHue,         \* result of calculateColorHue
  colorSaturation,  \* result of calculateColorSaturation
  lab,              \* Lab value of the pixel in the analysis loop
  hue,              \* its hue, in 1/100 degree
  inRange,          \* whether the loop takes the pixel
  bin,              \* histogram index the loop increments (-1: none)
  points,           \* argument of smoothToneCurve
  curve,            \* its result
  estimates,        \* results of the scalar estimators
  matA, matB,       \* arguments of multiplyMatrices
  product,          \* its result
  properties,       \* argument of calculateColorMatrixFromProperties
  resultMatrix,     \* its result
  toneMatrix,       \* result of convertToneCurveToMatrix
  failedTasks,      \* band tasks whose analysis threw
  histogramFailed,  \* whether getChannelHistogram threw
  promises,         \* the promises of the band tasks: [settled, value]
  lutIndex,         \* loop counters [b, g, r] of generateCUBELUT
  content,          \* data lines generateCUBELUT has appended
  xmpContent,       \* document returned by generateXMPCRS
  validation,       \* result of validateXMPContent
  adjustments,      \* result of parseXMPAdjustments
  histogram,        \* result of getChannelHistogram
  huePeaks,         \* result of findHistogramPeaks on the hue histogram
  edges,            \* edge image scanned by findBrushPatterns: [width, height, data]
  visited,          \* its visited set of flattened pixel indices
  scan,             \* flattened index the scan loop is at
  queue,            \* worklist of traceBrushStroke
  stroke,           \* points of the stroke being traced
  strokes,          \* strokes traced so far
  pixel,            \* an RGB pixel handed to recomb
  recombMatrix,     \* matrix applyXMPToImage hands to recomb
  recombined,       \* the pixel after recomb
  route,            \* which POST handler runs
  request,          \* what the request holds and which calls will fail
  tmpDir,           \* the handler's tmpDir ("" while undefined)
  files,            \* paths that exist on disk
  cleanups,         \* calls of cleanupTempFiles so far
  response,         \* the handler's response
  circles,          \* argument of mergeOverlappingCircles
  used,             \* its set of used indices
  merged,           \* its result so far
  sources,          \* for each merged circle, the indices of the circles it was made of
  seedIndex,        \* outer loop counter of mergeOverlappingCircles
  liEntries,        \* rdf:li entries handed to parseToneCurve
  parsedCurve       \* its result

vars == <<pc, buffer, channels, bandResults, toneCurves, imageProperties, band, distribution,
          colorHue, colorSaturation, lab, hue, inRange, bin, points, curve, estimates,
          matA, matB, product, properties, resultMatrix, toneMatrix, failedTasks,
          histogramFailed, promises, lutIndex, content, xmpContent, validation, adjustments,
          histogram, huePeaks, edges, visited, scan, queue, stroke, strokes, pixel, recombMatrix,
          recombined, route, request, tmpDir, files, cleanups, response, circles, used, merged,
          sources, seedIndex, liEntries, parsedCurve>>

extractVars == <<channels, bandResults, toneCurves, imageProperties>>

bandVars == <<band, distribution, colorHue, colorSaturation>>

pixelVars == <<lab, hue, inRange, bin>>

curveVars == <<points, curve>>

matrixVars == <<matA, matB, product, properties, resultMatrix>>

faultVars == <<failedTasks, histogramFailed, promises>>

lutVars == <<lutIndex, content>>

docVars == <<xmpContent, validation, adjustments>>

peakVars == <<histogram, huePeaks>>

traceVars == <<edges, visited, scan, queue, stroke, strokes>>

applyVars == <<pixel, recombMatrix, recombined>>

routeVars == <<route, request, tmpDir, files, cleanups, response>>

circleVars == <<circles, used, merged, sources, seedIndex>>

parseVars == <<liEntries, parsedCurve>>

lateVars == <<traceVars, applyVars, routeVars, circleVars, parseVars>>

restVars == <<toneMatrix, faultVars, lutVars, docVars, peakVars, lateVars>>

NoBuffer == [pixels |-> << >>, nchannels |-> 0, density |-> 0]

ExtractIdle ==
  channels = << >> /\ bandResults = << >> /\ toneCurves = [toneCurve |-> << >>] /\ imageProperties = [exposure |-> 0]

BandIdle == band = "" /\ distribution = EmptyDistribution /\ colorHue = 0 /\ colorSaturation = 0

PixelIdle == lab = ZeroLab /\ hue = 0 /\ inRange = FALSE /\ bin = 0 - 1

CurveIdle == points = << >> /\ curve = << >>

MatrixIdle ==
  /\ matA = IDENTITY_MATRIX /\ matB = IDENTITY_MATRIX /\ product = IDENTITY_MATRIX
  /\ properties = [hue |-> << >>, saturation |-> << >>] /\ resultMatrix = IDENTITY_MATRIX

FaultIdle == failedTasks = {} /\ histogramFailed = FALSE /\ promises = << >>

LutIdle == lutIndex = [b |-> 0, g |-> 0, r |-> 0] /\ content = << >>

DocIdle == xmpContent = << >> /\ validation = [isValid |-> FALSE] /\ adjustments = [exposure |-> 0]

PeakIdle == histogram = [peaks |-> << >>] /\ huePeaks = << >>

TraceIdle ==
  /\ edges = [width |-> 0, height |-> 0, data |-> << >>]
  /\ visited = {} /\ scan = 0 /\ queue = << >> /\ stroke = << >> /\ strokes = << >>

ApplyIdle == pixel = <<0, 0, 0>> /\ recombMatrix = << >> /\ recombined = <<0, 0, 0>>

RouteIdle ==
  /\ route = "" /\ request = [image |-> FALSE] /\ tmpDir = "" /\ files = {}
  /\ cleanups = 0 /\ response = [status |-> 0]

CircleIdle == circles = << >> /\ used = {} /\ merged = << >> /\ sources = << >> /\ seedIndex = 0

ParseIdle == liEntries = << >> /\ parsedCurve = << >>

LateIdle == TraceIdle /\ ApplyIdle /\ RouteIdle /\ CircleIdle /\ ParseIdle

RestIdle == toneMatrix = << >> /\ FaultIdle /\ LutIdle /\ DocIdle /\ PeakIdle /\ LateIdle

BandSet == {Bands[k] : k \in 1..Len(Bands)}

(***************************************************************************)
(* extractXMPCubeFromImage                                                 *)
(***************************************************************************)
\* channel counts of the uploads: greyscale and RGB
ChannelCounts == {1, 3}

\* metadata.density of the uploads: absent, and a value above the cap of 100
Densities == {0, 12000}

Buffers ==
  {[pixels |-> img, nchannels |-> n, density |-> d] : img \in Images, n \in ChannelCounts, d \in Densities}

\* sharp(buffer).stats().channels
SharpStats(buf) == SubSeq(StatsOf(buf.pixels), 1, buf.nchannels)

\* the 16 arguments of Promise.all, in the order they are written
Tasks ==
  [k \in 1..(2 * Len(Bands)) |->
     [kind |-> IF k <= Len(Bands) THEN "hue" ELSE "saturation",
      color |-> Bands[((k - 1) % Len(Bands)) + 1]]]

\* calculateColorHue(color, buffer) and calculateColorSaturation(color, buffer)
ColorHueOf(color, img) ==
  calculateColorHue(analyzeColorDistribution(LabPixels(img), COLOR_RANGES[color]), COLOR_RANGES[color])

ColorSaturationOf(color, img) ==
  calculateColorSaturation(analyzeColorDistribution(LabPixels(img), COLOR_RANGES[color]))

TaskResult(task, img) ==
  IF task.kind = "hue" THEN ColorHueOf(task.color, img) ELSE ColorSaturationOf(task.color, img)

BandIndex(color) == CHOOSE k \in 1..Len(Bands) : Bands[k] = color

\* the numeric fields of the imageProperties literal; hue[c] and
\* saturation[c] stand for the fields <c>Hue and <c>Saturation
BuildProperties(chs, density, results, curves) ==
  [exposure |-> calculateExposure(chs),
   temperature |-> calculateColorTemperature(chs),
   tint |-> calculateTint(chs),
   contrast |-> calculateContrast(chs),
   saturation0 |-> calculateSaturation(chs),
   brightness |-> calculateBrightness(chs),
   sharpness |-> calculateSharpness(density),
   clarity |-> calculateClarity(chs),
   vibrance |-> calculateVibrance(chs),
   texture |-> calculateTexture(chs),
   shadows |-> calculateShadows(chs),
   highlights |-> calculateHighlights(chs),
   dehaze |-> calculateDehaze(chs),
   parametricShadows |-> calculateParametricShadows(chs),
   parametricDarks |-> calculateParametricDarks(chs),
   parametricLights |-> calculateParametricLights(chs),
   parametricHighlights |-> calculateParametricHighlights(chs),
   parametricShadowSplit |-> calculateParametricShadowSplit(chs),
   parametricMidtoneSplit |-> calculateParametricMidtoneSplit(chs),
   parametricHighlightSplit |-> calculateParametricHighlightSplit(chs),
   toneMapStrength |-> calculateToneMapStrength(chs),
   luminanceSmoothing |-> calculateLuminanceSmoothing(chs),
   colorNoiseReduction |-> calculateColorNoiseReduction(chs),
   vignetteAmount |-> calculateVignetteAmount(chs),
   shadowTint |-> calculateShadowTint(chs),
   hue |-> [c \in BandSet |-> results[BandIndex(c)]],
   saturation |-> [c \in BandSet |-> results[Len(Bands) + BandIndex(c)]],
   splitToningShadowHue |-> calculateSplitToningShadowHue(chs),
   splitToningShadowSaturation |-> calculateSplitToningShadowSaturation(chs),
   splitToningHighlightHue |-> calculateSplitToningHighlightHue(chs),
   splitToningHighlightSaturation |-> calculateSplitToningHighlightSaturation(chs),
   splitToningBalance |-> calculateSplitToningBalance(chs),
   toneCurve |-> curves.toneCurve,
   toneCurveRed |-> curves.toneCurveRed,
   toneCurveGreen |-> curves.toneCurveGreen,
   toneCurveBlue |-> curves.toneCurveBlue]

Init ==
  /\ pc = "start"
  /\ buffer \in Buffers
  /\ ExtractIdle /\ BandIdle /\ PixelIdle /\ CurveIdle /\ MatrixIdle /\ RestIdle
  /\ estimates = [exposure |-> 0]

\* metadata and stats are read; fewer than 3 channels throws
ReadStats ==
  /\ pc = "start"
  /\ IF Len(SharpStats(buffer)) < 3
     THEN pc' = "failed" /\ channels' = channels
     ELSE pc' = "bands" /\ channels' = SharpStats(buffer)
  /\ UNCHANGED <<buffer, bandResults, toneCurves, imageProperties, estimates>>
  /\ UNCHANGED <<bandVars, pixelVars, curveVars, matrixVars, restVars>>

\* band task k settles; the tasks settle in the order they were started.
\* After the last one the awaited Promise.all resolves.
SettleTask(k) ==
  /\ pc = "bands"
  /\ k = Len(bandResults) + 1
  /\ bandResults' = Append(bandResults, TaskResult(Tasks[k], buffer.pixels))
  /\ pc' = IF k = Len(Tasks) THEN "curves" ELSE "bands"
  /\ UNCHANGED <<buffer, channels, toneCurves, imageProperties, estimates>>
  /\ UNCHANGED <<bandVars, pixelVars, curveVars, matrixVars, restVars>>

\* await calculateAllToneCurves(channels, buffer)
ToneCurves ==
  /\ pc = "curves"
  /\ toneCurves' = calculateAllToneCurves(channels, buffer.pixels)
  /\ pc' = "record"
  /\ UNCHANGED <<buffer, channels, bandResults, imageProperties, estimates>>
  /\ UNCHANGED <<bandVars, pixelVars, curveVars, matrixVars, restVars>>

\* the imageProperties literal is evaluated
BuildRecord ==
  /\ pc = "record"
  /\ imageProperties' = BuildProperties(channels, buffer.density, bandResults, toneCurves)
  /\ pc' = "done"
  /\ UNCHANGED <<buffer, channels, bandResults, toneCurves, estimates>>
  /\ UNCHANGED <<bandVars, pixelVars, curveVars, matrixVars, restVars>>

Next ==
  \/ ReadStats
  \/ \E k \in 1..Len(Tasks) : SettleTask(k)
  \/ ToneCurves
  \/ BuildRecord

Spec == Init /\ [][Next]_vars

(***************************************************************************)
(* The band estimators called on their own: analyzeColorDistribution,      *)
(* calculateColorHue and calculateColorSaturation for one buffer and one   *)
(* colour name.                                                            *)
(***************************************************************************)
InitBand ==
  /\ pc = "start"
  /\ buffer \in {[pixels |-> img, nchannels |-> 3, density |-> 0] : img \in Images}
  /\ band \in BandSet
  /\ distribution = EmptyDistribution /\ colorHue = 0 /\ colorSaturation = 0
  /\ ExtractIdle /\ PixelIdle /\ CurveIdle /\ MatrixIdle /\ RestIdle
  /\ estimates = [exposure |-> 0]

AnalyzeBand ==
  /\ pc = "start"
  /\ distribution' = analyzeColorDistribution(LabPixels(buffer.pixels), COLOR_RANGES[band])
  /\ pc' = "analyzed"
  /\ UNCHANGED <<buffer, band, colorHue, colorSaturation, estimates>>
  /\ UNCHANGED <<extractVars, pixelVars, curveVars, matrixVars, restVars>>

ColorHue ==
  /\ pc = "analyzed"
  /\ colorHue' = ColorHueOf(band, buffer.pixels)
  /\ pc' = "hue"
  /\ UNCHANGED <<buffer, band, distribution, colorSaturation, estimates>>
  /\ UNCHANGED <<extractVars, pixelVars, curveVars, matrixVars, restVars>>

ColorSaturation ==
  /\ pc = "hue"
  /\ colorSaturation' = ColorSaturationOf(band, buffer.pixels)
  /\ pc' = "done"
  /\ UNCHANGED <<buffer, band, distribution, colorHue, estimates>>
  /\ UNCHANGED <<extractVars, pixelVars, curveVars, matrixVars, restVars>>

NextBand == AnalyzeBand \/ ColorHue \/ ColorSaturation

SpecBand == InitBand /\ [][NextBand]_vars

(***************************************************************************)
(* One pass of the pixel loop of analyzeColorDistribution for a Lab value  *)
(* and a range: the hue, the range test and the histogram index.           *)
(***************************************************************************)
\* a and b of the Lab values tried, in 1/100
LabSamples ==
  {[l |-> 50 * H, a |-> x, b |-> y] :
     x \in {0 - 5700, 0 - 1000, 0, 1000, 5000}, y \in {0 - 1830, 0 - 1010, 0, 1000, 1830}}

InitPixel ==
  /\ pc = "start"
  /\ lab \in LabSamples
  /\ band \in BandSet
  /\ hue = 0 /\ inRange = FALSE /\ bin = 0 - 1
  /\ buffer = NoBuffer
  /\ distribution = EmptyDistribution /\ colorHue = 0 /\ colorSaturation = 0
  /\ ExtractIdle /\ CurveIdle /\ MatrixIdle /\ RestIdle
  /\ estimates = [exposure |-> 0]

\* const hue = ...; const inRange = ...; if (inRange) { ...; histogram[Math.floor(hue)]++ }
ClassifyPixel ==
  /\ pc = "start"
  /\ hue' = HueOfLab(lab)
  /\ inRange' = InRange(HueOfLab(lab), COLOR_RANGES[band])
  /\ bin' = IF InRange(HueOfLab(lab), COLOR_RANGES[band]) THEN HueBin(HueOfLab(lab)) ELSE 0 - 1
  /\ pc' = "done"
  /\ UNCHANGED <<buffer, lab, estimates>>
  /\ UNCHANGED <<extractVars, bandVars, curveVars, matrixVars, restVars>>

SpecPixel == InitPixel /\ [][ClassifyPixel]_vars

(***************************************************************************)
(* smoothToneCurve called on its own.                                      *)
(***************************************************************************)
MaxPoints == 2

\* inputs in the shadows, the highlights and at both ends; outputs below,
\* inside and above 0..255; weights 0, 0.05 and 1
TonePoints ==
  {[input |-> i * S, output |-> o * S, weight |-> w] :
     i \in {0, 40, 128, 255}, o \in {0 - 50, 400}, w \in {0, 50, S}}

InitCurve ==
  /\ pc = "start"
  /\ points \in UNION {[1..n -> TonePoints] : n \in 1..MaxPoints}
  /\ curve = << >>
  /\ buffer = NoBuffer
  /\ ExtractIdle /\ BandIdle /\ PixelIdle /\ MatrixIdle /\ RestIdle
  /\ estimates = [exposure |-> 0]

Smooth ==
  /\ pc = "start"
  /\ curve' = smoothToneCurve(points)
  /\ pc' = "done"
  /\ UNCHANGED <<buffer, points, estimates>>
  /\ UNCHANGED <<extractVars, bandVars, pixelVars, matrixVars, restVars>>

SpecCurve == InitCurve /\ [][Smooth]_vars

(***************************************************************************)
(* The scalar estimators called on channel statistics.                     *)
(***************************************************************************)
\* a channel with the given mean and stdev, and a min and max around the mean
StatChannels ==
  {[mean |-> m * S, stdev |-> sd * S, min |-> Max2(0, m - 2 * sd), max |-> Min2(255, m + 2 * sd)] :
     m \in {0, 50, 128, 200, 255}, sd \in {0, 30}}

Estimates(chs) ==
  [exposure |-> calculateExposure(chs),
   contrast |-> calculateContrast(chs),
   saturation |-> calculateSaturation(chs),
   brightness |-> calculateBrightness(chs),
   vibrance |-> calculateVibrance(chs),
   temperature |-> calculateColorTemperature(chs),
   tint |-> calculateTint(chs),
   shadowTint |-> calculateShadowTint(chs),
   toneMapStrength |-> calculateToneMapStrength(chs),
   parametricShadowSplit |-> calculateParametricShadowSplit(chs),
   parametricMidtoneSplit |-> calculateParametricMidtoneSplit(chs),
   parametricHighlightSplit |-> calculateParametricHighlightSplit(chs)]

InitStats ==
  /\ pc = "start"
  /\ channels \in [1..3 -> StatChannels]
  /\ estimates = [exposure |-> 0]
  /\ buffer = NoBuffer
  /\ bandResults = << >> /\ toneCurves = [toneCurve |-> << >>] /\ imageProperties = [exposure |-> 0]
  /\ BandIdle /\ PixelIdle /\ CurveIdle /\ MatrixIdle /\ RestIdle

Estimate ==
  /\ pc = "start"
  /\ estimates' = Estimates(channels)
  /\ pc' = "done"
  /\ UNCHANGED <<buffer>>
  /\ UNCHANGED <<extractVars, bandVars, pixelVars, curveVars, matrixVars, restVars>>

SpecStats == InitStats /\ [][Estimate]_vars

(***************************************************************************)
(* multiplyMatrices and calculateColorMatrixFromProperties called on       *)
(* their own.                                                              *)
(***************************************************************************)
\* all matrices with entries -0.5, 0 and 1
Matrices ==
  LET entries == {0 - S \div 2, 0, S}
      rows == {<<x, y, z>> : x \in entries, y \in entries, z \in entries}
  IN {<<r1, r2, r3>> : r1 \in rows, r2 \in rows, r3 \in rows}

\* the other argument: the identity, a shear and a matrix with fractions
Probes == {IDENTITY_MATRIX, << <<S, S, 0>>, <<0, S, 0>>, <<0, 0, S>> >>,
           << <<213, 715, 72>>, <<0 - 500, 250, 0>>, <<0, 0, 3000>> >>}

InitMatrix ==
  /\ pc = "start"
  /\ \/ matA \in Matrices /\ matB \in Probes
     \/ matA \in Probes /\ matB \in Matrices
  /\ product = IDENTITY_MATRIX
  /\ properties = [hue |-> << >>, saturation |-> << >>] /\ resultMatrix = IDENTITY_MATRIX
  /\ buffer = NoBuffer
  /\ ExtractIdle /\ BandIdle /\ PixelIdle /\ CurveIdle /\ RestIdle
  /\ estimates = [exposure |-> 0]

Multiply ==
  /\ pc = "start"
  /\ product' = multiplyMatrices(matA, matB)
  /\ pc' = "done"
  /\ UNCHANGED <<buffer, estimates, matA, matB, properties, resultMatrix>>
  /\ UNCHANGED <<extractVars, bandVars, pixelVars, curveVars, restVars>>

SpecMatrix == InitMatrix /\ [][Multiply]_vars

\* at most this many bands carry an adjustment
MaxActiveBands == 3

\* (hue, saturation) of a band: none, both, hue only, saturation only
Adjustments == {<<0, 0>>, <<30, 20>>, <<0 - 20, 0>>, <<0, 0 - 50>>}

BandProperties ==
  {[hue |-> [c \in BandSet |-> f[c][1]], saturation |-> [c \in BandSet |-> f[c][2]]] :
     f \in {g \in [BandSet -> Adjustments] : Cardinality({c \in BandSet : g[c] # <<0, 0>>}) <= MaxActiveBands}}

InitCompose ==
  /\ pc = "start"
  /\ properties \in BandProperties
  /\ resultMatrix = IDENTITY_MATRIX
  /\ matA = IDENTITY_MATRIX /\ matB = IDENTITY_MATRIX /\ product = IDENTITY_MATRIX
  /\ buffer = NoBuffer
  /\ ExtractIdle /\ BandIdle /\ PixelIdle /\ CurveIdle /\ RestIdle
  /\ estimates = [exposure |-> 0]

ComposeMatrix ==
  /\ pc = "start"
  /\ resultMatrix' = calculateColorMatrixFromProperties(properties)
  /\ pc' = "done"
  /\ UNCHANGED <<buffer, estimates, matA, matB, product, properties>>
  /\ UNCHANGED <<extractVars, bandVars, pixelVars, curveVars, restVars>>

SpecCompose == InitCompose /\ [][ComposeMatrix]_vars

(***************************************************************************)
(* convertToneCurveToMatrix called on its own.                             *)
(***************************************************************************)
MaxCurveLen == 2

\* points on the axes, at the origin and inside the square
CurvePoints == {<<x, y>> : x \in {0, 64, 255}, y \in {0, 100, 255}}

InitSlope ==
  /\ pc = "start"
  /\ curve \in UNION {[1..n -> CurvePoints] : n \in 0..MaxCurveLen}
  /\ points = << >>
  /\ toneMatrix = << >>
  /\ buffer = NoBuffer
  /\ ExtractIdle /\ BandIdle /\ PixelIdle /\ MatrixIdle
  /\ FaultIdle /\ LutIdle /\ DocIdle /\ PeakIdle /\ LateIdle
  /\ estimates = [exposure |-> 0]

Convert ==
  /\ pc = "start"
  /\ toneMatrix' = convertToneCurveToMatrix(curve)
  /\ pc' = "done"
  /\ UNCHANGED <<buffer, estimates>>
  /\ UNCHANGED <<extractVars, bandVars, pixelVars, curveVars, matrixVars>>
  /\ UNCHANGED <<faultVars, lutVars, docVars, peakVars, lateVars>>

SpecSlope == InitSlope /\ [][Convert]_vars

(***************************************************************************)
(* extractXMPCubeFromImage with failures: the analysis of a band may throw *)
(* inside analyzeColorDistribution, and getChannelHistogram may throw      *)
(* inside calculateAllToneCurves.                                          *)
(***************************************************************************)
\* at most this many band tasks fail in one call
MaxFailures == 1

\* variant of CaughtDistribution that keeps a weight and a mean
PartialDistribution ==
  [mean |-> [l |-> 50 * H, a |-> 30 * H, b |-> 0], peaks |-> << >>, weight |-> S, count |-> 1, bins |-> {}]

\* what the catch block of analyzeColorDistribution returns
CaughtDistribution == [mean |-> ZeroLab, peaks |-> << >>, weight |-> 0, count |-> 0, bins |-> {}]

\* the value a band task resolves with; fails says whether its analysis threw
TaskOutcome(task, img, fails) ==
  LET range == COLOR_RANGES[task.color]
      dist == IF fails THEN CaughtDistribution ELSE analyzeColorDistribution(LabPixels(img), range)
  IN IF task.kind = "hue" THEN calculateColorHue(dist, range) ELSE calculateColorSaturation(dist)

\* the one-pixel image of Palette[3]: its red hue and red saturation tasks
\* have non-zero results
FaultImages == {<<3>>}

InitFail ==
  /\ pc = "start"
  /\ buffer \in {[pixels |-> img, nchannels |-> 3, density |-> 0] : img \in FaultImages}
  /\ ExtractIdle /\ BandIdle /\ PixelIdle /\ CurveIdle /\ MatrixIdle /\ RestIdle
  /\ estimates = [exposure |-> 0]

\* band task k settles; its promise is fulfilled whether or not the analysis threw
SettleBandTask(k, fails) ==
  /\ pc = "bands"
  /\ k = Len(bandResults) + 1
  /\ fails => Cardinality(failedTasks) < MaxFailures
  /\ bandResults' = Append(bandResults, TaskOutcome(Tasks[k], buffer.pixels, fails))
  /\ failedTasks' = IF fails THEN failedTasks \cup {k} ELSE failedTasks
  /\ pc' = IF k = Len(Tasks) THEN "curves" ELSE "bands"
  /\ UNCHANGED <<buffer, channels, toneCurves, imageProperties, estimates, histogramFailed, promises>>
  /\ UNCHANGED <<bandVars, pixelVars, curveVars, matrixVars, toneMatrix, lutVars, docVars, peakVars, lateVars>>

\* await calculateAllToneCurves(channels, buffer): a getChannelHistogram that
\* throws rejects the Promise.all inside it, nothing catches the rejection
\* before the catch block of extractXMPCubeFromImage, and that one rethrows
SynthesiseCurves(fails) ==
  /\ pc = "curves"
  /\ IF fails
     THEN histogramFailed' = TRUE /\ pc' = "failed" /\ toneCurves' = toneCurves
     ELSE histogramFailed' = histogramFailed /\ pc' = "record"
          /\ toneCurves' = calculateAllToneCurves(channels, buffer.pixels)
  /\ UNCHANGED <<buffer, channels, bandResults, imageProperties, estimates, failedTasks, promises>>
  /\ UNCHANGED <<bandVars, pixelVars, curveVars, matrixVars, toneMatrix, lutVars, docVars, peakVars, lateVars>>

NextFail ==
  \/ ReadStats
  \/ \E k \in 1..Len(Tasks), fails \in BOOLEAN : SettleBandTask(k, fails)
  \/ \E fails \in BOOLEAN : SynthesiseCurves(fails)
  \/ BuildRecord

SpecFail == InitFail /\ [][NextFail]_vars

(***************************************************************************)
(* extractXMPCubeFromImage with the band tasks settling in any order: the  *)
(* sixteen promises are created together, settle one by one, and the await *)
(* on Promise.all resumes once all of them have settled.                   *)
(***************************************************************************)
\* one-pixel images with a non-zero adjustment in the red and in the blue band
JoinImages == {<<3>>, <<5>>}

\* variant of ResultSlot: the values are kept in the order of arrival
ArrivalSlot(k, done) == Cardinality(done) + 1

\* Promise.all puts the value of the k-th promise at index k of its result;
\* done is the set of promises settled before
ResultSlot(k, done) == k

Settled == {k \in DOMAIN promises : promises[k].settled}

InitJoin ==
  /\ pc = "start"
  /\ buffer \in {[pixels |-> img, nchannels |-> 3, density |-> 0] : img \in JoinImages}
  /\ ExtractIdle /\ BandIdle /\ PixelIdle /\ CurveIdle /\ MatrixIdle /\ RestIdle
  /\ estimates = [exposure |-> 0]

\* metadata and stats are read and the 16 calls of the Promise.all argument
\* are made; each promise will be fulfilled with the result of its own call
StartTasks ==
  /\ pc = "start"
  /\ Len(SharpStats(buffer)) >= 3
  /\ channels' = SharpStats(buffer)
  /\ promises' = [k \in 1..Len(Tasks) |-> [settled |-> FALSE, value |-> TaskResult(Tasks[k], buffer.pixels)]]
  /\ pc' = "bands"
  /\ UNCHANGED <<buffer, bandResults, toneCurves, imageProperties, estimates, failedTasks, histogramFailed>>
  /\ UNCHANGED <<bandVars, pixelVars, curveVars, matrixVars, toneMatrix, lutVars, docVars, peakVars, lateVars>>

\* the promise of band task k settles, whichever of the pending ones it is
SettleAny(k) ==
  /\ pc = "bands"
  /\ ~promises[k].settled
  /\ promises' = [promises EXCEPT ![k].settled = TRUE]
  /\ bandResults' = (ResultSlot(k, Settled) :> promises[k].value) @@ bandResults
  /\ UNCHANGED <<pc, buffer, channels, toneCurves, imageProperties, estimates, failedTasks, histogramFailed>>
  /\ UNCHANGED <<bandVars, pixelVars, curveVars, matrixVars, toneMatrix, lutVars, docVars, peakVars, lateVars>>

\* every promise has settled: Promise.all resolves and the await resumes
Join ==
  /\ pc = "bands"
  /\ Settled = 1..Len(Tasks)
  /\ pc' = "curves"
  /\ UNCHANGED <<buffer, channels, bandResults, toneCurves, imageProperties, estimates>>
  /\ UNCHANGED <<bandVars, pixelVars, curveVars, matrixVars, restVars>>

NextJoin ==
  \/ StartTasks
  \/ \E k \in 1..Len(Tasks) : SettleAny(k)
  \/ Join
  \/ ToneCurves
  \/ BuildRecord

SpecJoin == InitJoin /\ [][NextJoin]_vars

(***************************************************************************)
(* generateCUBELUT: the colour matrix is computed, then one data line is   *)
(* appended per pass of the innermost loop.                                *)
(***************************************************************************)
\* records with and without a band adjustment, with exposure -1, 0 and 2,
\* contrast 0 and 40, and the default or a lifted curve in each channel
LutRecords ==
  {[hue |-> [c \in BandSet |-> IF c = "red" THEN h ELSE 0],
    saturation |-> [c \in BandSet |-> 0],
    exposure |-> e, contrast |-> k,
    toneCurveRed |-> tr, toneCurveGreen |-> << >>, toneCurveBlue |-> tb] :
     h \in {0, 30}, e \in {0 - 1, 0, 2}, k \in {0, 40},
     tr \in {DEFAULT_TONE_CURVE, << <<0, 0>>, <<128, 160>>, <<255, 255>> >>},
     tb \in {<< >>, << <<0, 20>>, <<255, 235>> >>}}

InitLut ==
  /\ pc = "start"
  /\ properties \in LutRecords
  /\ resultMatrix = IDENTITY_MATRIX
  /\ matA = IDENTITY_MATRIX /\ matB = IDENTITY_MATRIX /\ product = IDENTITY_MATRIX
  /\ buffer = NoBuffer
  /\ ExtractIdle /\ BandIdle /\ PixelIdle /\ CurveIdle /\ RestIdle
  /\ estimates = [exposure |-> 0]

\* validateImageProperties passes, the header is written, colorMatrix is computed
StartLut ==
  /\ pc = "start"
  /\ resultMatrix' = calculateColorMatrixFromProperties(properties)
  /\ lutIndex' = [b |-> 0, g |-> 0, r |-> 0]
  /\ content' = << >>
  /\ pc' = "lut"
  /\ UNCHANGED <<buffer, estimates, matA, matB, product, properties>>
  /\ UNCHANGED <<extractVars, bandVars, pixelVars, curveVars, toneMatrix, faultVars, docVars, peakVars, lateVars>>

\* one pass of the innermost loop: content += formatLUTPoint(point)
EmitLine ==
  /\ pc = "lut"
  /\ content' = Append(content, LutLine(lutIndex.r, lutIndex.g, lutIndex.b, properties, resultMatrix))
  /\ lutIndex' = NextLutIndex(lutIndex)
  /\ pc' = IF NextLutIndex(lutIndex).b >= LUT_SIZE THEN "done" ELSE "lut"
  /\ UNCHANGED <<buffer, estimates, matrixVars>>
  /\ UNCHANGED <<extractVars, bandVars, pixelVars, curveVars, toneMatrix, faultVars, docVars, peakVars, lateVars>>

NextLut == StartLut \/ EmitLine

SpecLut == InitLut /\ [][NextLut]_vars

(***************************************************************************)
(* SpecDoc: a record is written by generateXMPCRS, and the written         *)
(* document is validated (as the apply route does first) and parsed back   *)
(* into adjustments.                                                       *)
(***************************************************************************)
\* the properties generateXMPCRS reads
WrittenProps ==
  {SimpleProps[i][2] : i \in 1..Len(SimpleProps)} \cup {CurveProps[i][2] : i \in 1..Len(CurveProps)}

\* a record as extractImageProperties builds it: numbers everywhere except
\* the texts, the three flags and the four curves
BaseRecord ==
  [prop \in WrittenProps |->
     CASE prop \in {"version", "processVersion"} -> Str("15.0")
       [] prop = "whiteBalance" -> Str("As Shot")
       [] prop = "cameraProfile" -> Str("Adobe Standard")
       [] prop = "cameraProfileDigest" -> Str("3DA8CE4A626CE36A1D0C55BF157793C9")
       [] prop = "toneCurveName" -> Str("Custom")
       [] prop = "hasSettings" -> Bool(TRUE)
       [] prop \in {"hasCrop", "alreadyApplied"} -> Bool(FALSE)
       [] PropertyKind(prop) = "curve" -> Pts(<< <<0, 0>>, <<255000, 255000>> >>)
       [] OTHER -> Num(0)]

DocRecords ==
  {[prop \in WrittenProps |->
      CASE prop = "exposure" -> Num(e)
        [] prop = "redHue" -> Num(h)
        [] prop = "vignetteAmount" -> Num(v)
        [] prop = "hasCrop" -> Bool(c)
        [] prop = "whiteBalance" -> Str(w)
        [] prop = "toneCurve" -> t
        [] OTHER -> BaseRecord[prop]] :
     e \in {0, 500, NaN}, h \in {0, 0 - 8000}, v \in {0, 25000}, c \in BOOLEAN,
     w \in {"As Shot", "Custom"},
     t \in {Undefined, Pts(<< <<0, 0>>, <<255000, 255000>> >>),
            Pts(<< <<0, 0>>, <<128000, 160000>>, <<255000, 255000>> >>)}}

InitDoc ==
  /\ pc = "start"
  /\ properties \in DocRecords
  /\ resultMatrix = IDENTITY_MATRIX
  /\ matA = IDENTITY_MATRIX /\ matB = IDENTITY_MATRIX /\ product = IDENTITY_MATRIX
  /\ buffer = NoBuffer
  /\ ExtractIdle /\ BandIdle /\ PixelIdle /\ CurveIdle /\ RestIdle
  /\ estimates = [exposure |-> 0]

\* const xmpContent = generateXMPCRS(filename, imageProperties)
GenerateDoc ==
  /\ pc = "start"
  /\ xmpContent' = generateXMPCRS(properties)
  /\ pc' = "emitted"
  /\ UNCHANGED <<buffer, estimates, matA, matB, product, properties, resultMatrix, validation, adjustments>>
  /\ UNCHANGED <<extractVars, bandVars, pixelVars, curveVars, toneMatrix, faultVars, lutVars, peakVars, lateVars>>

\* const xmpContentValidation = await validateXMPContent(xmpString)
ValidateDoc ==
  /\ pc = "emitted"
  /\ validation' = validateXMPContent(xmpContent)
  /\ pc' = "validated"
  /\ UNCHANGED <<buffer, estimates, matA, matB, product, properties, resultMatrix, xmpContent, adjustments>>
  /\ UNCHANGED <<extractVars, bandVars, pixelVars, curveVars, toneMatrix, faultVars, lutVars, peakVars, lateVars>>

\* parseXMP(parseXMPData(xmpString)); the exported parser runs on any document
ParseDoc ==
  /\ pc \in {"emitted", "validated"}
  /\ adjustments' = parseXMPAdjustments(xmpContent)
  /\ pc' = "parsed"
  /\ UNCHANGED <<buffer, estimates, matA, matB, product, properties, resultMatrix, xmpContent, validation>>
  /\ UNCHANGED <<extractVars, bandVars, pixelVars, curveVars, toneMatrix, faultVars, lutVars, peakVars, lateVars>>

NextDoc == GenerateDoc \/ ValidateDoc \/ ParseDoc

SpecDoc == InitDoc /\ [][NextDoc]_vars

(***************************************************************************)
(* SpecNeutral: the scalar estimators and the composite curve called on    *)
(* channel lists that are short or lack statistics.                        *)
(***************************************************************************)
\* two complete channels, channels lacking one statistic each, and an entry
\* that is not there at all
PartialChannels ==
  {[mean |-> 128 * S, stdev |-> 30 * S, min |-> 68, max |-> 188],
   [mean |-> 200 * S, stdev |-> 20 * S, min |-> 160, max |-> 240],
   [mean |-> undefinedStat, stdev |-> 30 * S, min |-> 68, max |-> 188],
   [mean |-> 128 * S, stdev |-> undefinedStat, min |-> 68, max |-> 188],
   [mean |-> 128 * S, stdev |-> 30 * S, min |-> undefinedStat, max |-> 188],
   [mean |-> 128 * S, stdev |-> 30 * S, min |-> 68, max |-> undefinedStat],
   [mean |-> undefinedStat, stdev |-> undefinedStat, min |-> undefinedStat, max |-> undefinedStat]}

InitNeutral ==
  /\ pc = "start"
  /\ channels \in UNION {[1..n -> PartialChannels] : n \in 0..3}
  /\ points = Anchors
  /\ curve = << >>
  /\ estimates = [exposure |-> 0]
  /\ buffer = NoBuffer
  /\ bandResults = << >> /\ toneCurves = [toneCurve |-> << >>] /\ imageProperties = [exposure |-> 0]
  /\ BandIdle /\ PixelIdle /\ MatrixIdle /\ RestIdle

\* every scalar estimator and calculateToneCurveFromPoints called on the channels
EstimateNeutral ==
  /\ pc = "start"
  /\ estimates' = Estimates(channels)
  /\ curve' = calculateToneCurveFromPoints(<<points, points, points>>, channels)
  /\ pc' = "done"
  /\ UNCHANGED <<buffer, points>>
  /\ UNCHANGED <<extractVars, bandVars, pixelVars, matrixVars, restVars>>

SpecNeutral == InitNeutral /\ [][EstimateNeutral]_vars

(***************************************************************************)
(* SpecCount: smoothToneCurve called on lists of up to MaxCountPoints      *)
(* points, long enough for the count of curve points to reach its upper    *)
(* limit.                                                                  *)
(***************************************************************************)
MaxCountPoints == 4

\* mid-grey points lifted by 20, of weight 0, 0.1, 0.114, 0.5 and 1
CountPoints ==
  {[input |-> 128 * S, output |-> 148 * S, weight |-> w] : w \in {0, 100, 114, 500, S}}

InitCount ==
  /\ pc = "start"
  /\ points \in UNION {[1..n -> CountPoints] : n \in 1..MaxCountPoints}
  /\ curve = << >>
  /\ buffer = NoBuffer
  /\ ExtractIdle /\ BandIdle /\ PixelIdle /\ MatrixIdle /\ RestIdle
  /\ estimates = [exposure |-> 0]

SpecCount == InitCount /\ [][Smooth]_vars

(***************************************************************************)
(* SpecPeaks: the three producers of fractions.  analyzeColorDistribution  *)
(* runs on a buffer; findHistogramPeaks runs in both modes on a histogram  *)
(* of MaxBins bins; findSignificantTonePointsFromHistogram runs on the     *)
(* peaks found in derivative mode.                                         *)
(***************************************************************************)
MaxBins == 5

\* bin heights: empty, below and above 1% of the highest, and the highest
BinHeights == {0, 1, 2, 150}

\* buffers with all, none and half of the pixels in the red range
PeakImages == {<<3>>, <<5>>, <<3, 5>>}

InitPeaks ==
  /\ pc = "start"
  /\ buffer \in {[pixels |-> img, nchannels |-> 3, density |-> 0] : img \in PeakImages}
  /\ band = "red"
  /\ distribution = EmptyDistribution /\ colorHue = 0 /\ colorSaturation = 0
  /\ ExtractIdle /\ PixelIdle /\ CurveIdle /\ MatrixIdle /\ RestIdle
  /\ estimates = [exposure |-> 0]

\* findHistogramPeaks(values, mean, stdev) and findHistogramPeaks(values)
FindPeaks(values, mean, stdev) ==
  /\ pc = "analyzed"
  /\ histogram' = [values |-> values, mean |-> mean, stdev |-> stdev,
                   peaks |-> findHistogramPeaks(values, MaxBins, TRUE, mean, stdev)]
  /\ huePeaks' = findHistogramPeaks(values, MaxBins, FALSE, 0, 0)
  /\ pc' = "peaks"
  /\ UNCHANGED <<buffer, estimates>>
  /\ UNCHANGED <<extractVars, bandVars, pixelVars, curveVars, matrixVars, toneMatrix, faultVars, lutVars, docVars,
               lateVars>>

\* findSignificantTonePointsFromHistogram(histogram)
FindTonePoints ==
  /\ pc = "peaks"
  /\ points' = findSignificantTonePointsFromHistogram(histogram.peaks)
  /\ pc' = "done"
  /\ UNCHANGED <<buffer, estimates, curve>>
  /\ UNCHANGED <<extractVars, bandVars, pixelVars, matrixVars, restVars>>

NextPeaks ==
  \/ AnalyzeBand
  \/ \E values \in [0..(MaxBins - 1) -> BinHeights], stdev \in {0, 2 * S} : FindPeaks(values, 2 * S, stdev)
  \/ FindTonePoints

SpecPeaks == InitPeaks /\ [][NextPeaks]_vars

(***************************************************************************)
(* SpecTone: findSignificantTonePointsFromHistogram called on the peaks of *)
(* a channel histogram: up to MaxPeaks peaks at distinct positions,        *)
(* highest first, as getChannelHistogram hands them over.                  *)
(***************************************************************************)
MaxPeaks == 2

\* peaks in the shadows and in the highlights, next to both ends and at the
\* middle; heights 0.2 and 1; widths 0, 2 and 200 bins
TonePeaks ==
  {[position |-> p, height |-> h, width |-> w * H] :
     p \in {1, 100, 128, 254}, h \in {200, S}, w \in {0, 2, 200}}

PeakLists ==
  {l \in UNION {[1..n -> TonePeaks] : n \in 0..MaxPeaks} :
     /\ \A j, k \in 1..Len(l) : j < k => l[j].position # l[k].position
     /\ \A k \in 1..(Len(l) - 1) : l[k].height >= l[k + 1].height}

InitTone ==
  /\ pc = "peaks"
  /\ histogram \in {[peaks |-> l] : l \in PeakLists}
  /\ huePeaks = << >>
  /\ buffer = NoBuffer
  /\ ExtractIdle /\ BandIdle /\ PixelIdle /\ CurveIdle /\ MatrixIdle
  /\ toneMatrix = << >> /\ FaultIdle /\ LutIdle /\ DocIdle /\ LateIdle
  /\ estimates = [exposure |-> 0]

SpecTone == InitTone /\ [][FindTonePoints]_vars

(***************************************************************************)
(* SpecTrace: findBrushPatterns scans an edge image of MaxWidth by 2       *)
(* pixels and calls traceBrushStroke on every edge pixel it has not        *)
(* visited.  One action is one pass of the scan loop or of the while loop  *)
(* of traceBrushStroke.  The scan and the worklist always run on.          *)
(***************************************************************************)
MaxWidth == 3

\* edge values: 128 is not an edge, 200 is
EdgeImages ==
  {[width |-> MaxWidth, height |-> 2, data |-> d] : d \in [0..(MaxWidth * 2 - 1) -> {128, 200}]}

\* variant of NeighbourOffsets with the four side neighbours only
SideOffsets == << <<0, 0 - 1>>, <<0 - 1, 0>>, <<1, 0>>, <<0, 1>> >>

\* (dx, dy) in the order of the two nested loops, without (0, 0)
NeighbourOffsets ==
  << <<0 - 1, 0 - 1>>, <<0, 0 - 1>>, <<1, 0 - 1>>, <<0 - 1, 0>>, <<1, 0>>, <<0 - 1, 1>>, <<0, 1>>, <<1, 1>> >>

\* the neighbours of (x, y) that traceBrushStroke pushes, given the visited set
PushedNeighbours(e, x, y, seen) ==
  LET Pushed(o) ==
        /\ x + o[1] >= 0 /\ x + o[1] < e.width /\ y + o[2] >= 0 /\ y + o[2] < e.height
        /\ e.data[(y + o[2]) * e.width + (x + o[1])] > 128
        /\ (y + o[2]) * e.width + (x + o[1]) \notin seen
      kept == SelectSeq(NeighbourOffsets, Pushed)
  IN [k \in 1..Len(kept) |-> [x |-> x + kept[k][1], y |-> y + kept[k][2]]]

InitTrace ==
  /\ pc = "scan"
  /\ edges \in EdgeImages
  /\ visited = {} /\ scan = 0 /\ queue = << >> /\ stroke = << >> /\ strokes = << >>
  /\ buffer = NoBuffer
  /\ ExtractIdle /\ BandIdle /\ PixelIdle /\ CurveIdle /\ MatrixIdle
  /\ toneMatrix = << >> /\ FaultIdle /\ LutIdle /\ DocIdle /\ PeakIdle
  /\ ApplyIdle /\ RouteIdle /\ CircleIdle /\ ParseIdle
  /\ estimates = [exposure |-> 0]

\* one pass of the scan of findBrushPatterns: an unvisited edge pixel starts a stroke
ScanPixel ==
  /\ pc = "scan"
  /\ scan < edges.width * edges.height
  /\ IF edges.data[scan] > 128 /\ scan \notin visited
     THEN /\ queue' = << [x |-> scan % edges.width, y |-> scan \div edges.width] >>
          /\ stroke' = << >>
          /\ pc' = "trace"
          /\ UNCHANGED scan
     ELSE /\ scan' = scan + 1
          /\ UNCHANGED <<pc, queue, stroke>>
  /\ UNCHANGED <<edges, visited, strokes>>
  /\ UNCHANGED <<buffer, estimates, extractVars, bandVars, pixelVars, curveVars, matrixVars>>
  /\ UNCHANGED <<toneMatrix, faultVars, lutVars, docVars, peakVars, applyVars, routeVars, circleVars, parseVars>>

\* one pass of the while loop of traceBrushStroke
TraceStep ==
  /\ pc = "trace"
  /\ queue # << >>
  /\ LET x == Head(queue).x
         y == Head(queue).y
         index == y * edges.width + x
     IN IF index \in visited
        THEN /\ queue' = Tail(queue)
             /\ UNCHANGED <<visited, stroke>>
        ELSE /\ visited' = visited \cup {index}
             /\ stroke' = Append(stroke, [x |-> x, y |-> y])
             /\ queue' = Tail(queue) \o PushedNeighbours(edges, x, y, visited \cup {index})
  /\ UNCHANGED <<pc, edges, scan, strokes>>
  /\ UNCHANGED <<buffer, estimates, extractVars, bandVars, pixelVars, curveVars, matrixVars>>
  /\ UNCHANGED <<toneMatrix, faultVars, lutVars, docVars, peakVars, applyVars, routeVars, circleVars, parseVars>>

\* the worklist is empty: traceBrushStroke returns and the scan goes on
EndTrace ==
  /\ pc = "trace"
  /\ queue = << >>
  /\ strokes' = Append(strokes, stroke)
  /\ scan' = scan + 1
  /\ pc' = "scan"
  /\ UNCHANGED <<edges, visited, queue, stroke>>
  /\ UNCHANGED <<buffer, estimates, extractVars, bandVars, pixelVars, curveVars, matrixVars>>
  /\ UNCHANGED <<toneMatrix, faultVars, lutVars, docVars, peakVars, applyVars, routeVars, circleVars, parseVars>>

\* the scan has passed the last pixel
EndScan ==
  /\ pc = "scan"
  /\ scan = edges.width * edges.height
  /\ pc' = "done"
  /\ UNCHANGED traceVars
  /\ UNCHANGED <<buffer, estimates, extractVars, bandVars, pixelVars, curveVars, matrixVars>>
  /\ UNCHANGED <<toneMatrix, faultVars, lutVars, docVars, peakVars, applyVars, routeVars, circleVars, parseVars>>

NextTrace == ScanPixel \/ TraceStep \/ EndTrace \/ EndScan

SpecTrace == InitTrace /\ [][NextTrace]_vars /\ WF_vars(NextTrace)

(***************************************************************************)
(* SpecSplit: the scalar estimators called on channels whose means run     *)
(* from 1 to 255.                                                          *)
(***************************************************************************)
\* means 1, 64, 127.5, 128, 254.999 and 255
SplitChannels ==
  {[mean |-> m, stdev |-> 10 * S, min |-> 1, max |-> 255] :
     m \in {S, 64 * S, 127500, 128 * S, 254999, 255 * S}}

InitSplit ==
  /\ pc = "start"
  /\ channels \in [1..3 -> SplitChannels]
  /\ estimates = [exposure |-> 0]
  /\ buffer = NoBuffer
  /\ bandResults = << >> /\ toneCurves = [toneCurve |-> << >>] /\ imageProperties = [exposure |-> 0]
  /\ BandIdle /\ PixelIdle /\ CurveIdle /\ MatrixIdle /\ RestIdle

SpecSplit == InitSplit /\ [][Estimate]_vars

(***************************************************************************)
(* The parametric step and the tone-curve step of applyXMPToImage, on one  *)
(* pixel.  An absent curve is the empty sequence, an absent parametric     *)
(* amount is 0; the splits keep their defaults.                            *)
(***************************************************************************)
ApplyCurves ==
  {<< >>,
   << <<10, 10>> >>,
   << <<0, 0>>, <<255, 255>> >>,
   << <<10, 20>>, <<210, 120>> >>,
   << <<10, 10>>, <<128, 150>>, <<250, 250>> >>}

ApplyPixels == {<<10, 200, 50>>, <<128, 128, 128>>, <<255, 0, 90>>}

ApplyAdjustments ==
  {[parametricShadows |-> s, parametricDarks |-> 0, parametricLights |-> 0,
    parametricHighlights |-> h,
    parametricShadowSplit |-> 25, parametricMidtoneSplit |-> 50, parametricHighlightSplit |-> 75,
    toneCurve |-> t, toneCurveRed |-> r, toneCurveGreen |-> << >>, toneCurveBlue |-> b] :
     s \in {0, 40}, h \in {0, 0 - 30}, t \in ApplyCurves, r \in ApplyCurves,
     b \in {<< >>, << <<10, 20>>, <<210, 120>> >>}}

InitApply ==
  /\ pc = "start"
  /\ adjustments \in ApplyAdjustments
  /\ pixel \in ApplyPixels
  /\ recombined = pixel
  /\ recombMatrix = << >>
  /\ xmpContent = << >> /\ validation = [isValid |-> FALSE]
  /\ buffer = NoBuffer
  /\ ExtractIdle /\ BandIdle /\ PixelIdle /\ CurveIdle /\ MatrixIdle
  /\ toneMatrix = << >> /\ FaultIdle /\ LutIdle /\ PeakIdle
  /\ TraceIdle /\ RouteIdle /\ CircleIdle /\ ParseIdle
  /\ estimates = [exposure |-> 0]

\* the parametric step: image.recomb([matrix, matrix, matrix]) when one of the
\* four amounts is set
ParametricStep ==
  /\ pc = "start"
  /\ pixel' = recombined
  /\ IF adjustments.parametricShadows # 0 \/ adjustments.parametricDarks # 0
        \/ adjustments.parametricLights # 0 \/ adjustments.parametricHighlights # 0
       THEN LET matrix == convertToneCurveToMatrix(createParametricCurve(adjustments))
            IN /\ toneMatrix' = matrix
               /\ recombMatrix' = <<matrix, matrix, matrix>>
               /\ recombined' = recomb(<<matrix, matrix, matrix>>, recombined)
       ELSE /\ recombMatrix' = << >>
            /\ UNCHANGED <<toneMatrix, recombined>>
  /\ pc' = "parametric"
  /\ UNCHANGED <<buffer, estimates, xmpContent, validation, adjustments>>
  /\ UNCHANGED <<extractVars, bandVars, pixelVars, curveVars, matrixVars>>
  /\ UNCHANGED <<faultVars, lutVars, peakVars, traceVars, routeVars, circleVars, parseVars>>

\* the tone-curve step: image.recomb([redMatrix, greenMatrix, blueMatrix]) when
\* one of the four curves is present
ToneCurveStep ==
  /\ pc = "parametric"
  /\ pixel' = recombined
  /\ IF adjustments.toneCurve # << >> \/ adjustments.toneCurveRed # << >>
        \/ adjustments.toneCurveGreen # << >> \/ adjustments.toneCurveBlue # << >>
       THEN LET redMatrix == ChannelRow(adjustments.toneCurveRed, adjustments.toneCurve)
                greenMatrix == ChannelRow(adjustments.toneCurveGreen, adjustments.toneCurve)
                blueMatrix == ChannelRow(adjustments.toneCurveBlue, adjustments.toneCurve)
            IN /\ toneMatrix' = blueMatrix
               /\ recombMatrix' = <<redMatrix, greenMatrix, blueMatrix>>
               /\ recombined' = recomb(<<redMatrix, greenMatrix, blueMatrix>>, recombined)
       ELSE /\ recombMatrix' = << >>
            /\ UNCHANGED <<toneMatrix, recombined>>
  /\ pc' = "done"
  /\ UNCHANGED <<buffer, estimates, xmpContent, validation, adjustments>>
  /\ UNCHANGED <<extractVars, bandVars, pixelVars, curveVars, matrixVars>>
  /\ UNCHANGED <<faultVars, lutVars, peakVars, traceVars, routeVars, circleVars, parseVars>>

NextApply == ParametricStep \/ ToneCurveStep

SpecApply == InitApply /\ [][NextApply]_vars

(***************************************************************************)
(* calculateColorHue on a distribution whose mean and peaks lie all round  *)
(* the hue circle, for each of the eight bands.                            *)
(***************************************************************************)
HueLabs ==
  {[l |-> 50 * H, a |-> x, b |-> y] :
     x \in {0 - 5000, 0 - 2000, 0, 2000, 5000}, y \in {0 - 5000, 0 - 2000, 0, 2000, 5000}}

HuePeakLabs ==
  {[l |-> 50 * H, a |-> 0 - 5000, b |-> 0], [l |-> 50 * H, a |-> 5000, b |-> 0 - 2000],
   [l |-> 50 * H, a |-> 0 - 2000, b |-> 5000], [l |-> 50 * H, a |-> 0, b |-> 0]}

HueDistributions ==
  {[mean |-> m, peaks |-> p, weight |-> w, count |-> 1, bins |-> {}] :
     m \in HueLabs, p \in {<< >>} \cup {<<q>> : q \in HuePeakLabs}, w \in {0, 500, S}}

InitHue ==
  /\ pc = "analyzed"
  /\ band \in {Bands[k] : k \in 1..Len(Bands)}
  /\ distribution \in HueDistributions
  /\ colorHue = 0 /\ colorSaturation = 0
  /\ buffer = NoBuffer
  /\ ExtractIdle /\ PixelIdle /\ CurveIdle /\ MatrixIdle /\ RestIdle
  /\ estimates = [exposure |-> 0]

\* calculateColorHue once analyzeColorDistribution has returned
HueOfDistribution ==
  /\ pc = "analyzed"
  /\ colorHue' = calculateColorHue(distribution, COLOR_RANGES[band])
  /\ pc' = "hue"
  /\ UNCHANGED <<buffer, band, distribution, colorSaturation, estimates>>
  /\ UNCHANGED <<extractVars, pixelVars, curveVars, matrixVars, restVars>>

SpecHue == InitHue /\ [][HueOfDistribution]_vars

(***************************************************************************)
(* The two POST handlers, extract and apply, on one request: the try       *)
(* block step by step, the catch block and the finally block.  Each await  *)
(* on the file system or on the analysis either returns or throws.         *)
(***************************************************************************)
ImageFiles ==
  {NoFile,
   [name |-> [stem |-> "a", ext |-> ".jpg"], type |-> "image/jpeg", size |-> 3],
   [name |-> [stem |-> "b", ext |-> ".png"], type |-> "image/png", size |-> 60],
   [name |-> [stem |-> "c", ext |-> ".gif"], type |-> "image/gif", size |-> 1]}

XmpFiles ==
  {NoFile,
   [name |-> [stem |-> "a", ext |-> ".xmp"], type |-> "application/xml", size |-> 0],
   [name |-> [stem |-> "a", ext |-> ".txt"], type |-> "text/xml", size |-> 0]}

XmpDocs ==
  {[declaration |-> TRUE, root |-> "x:xmpmeta",
    elements |-> <<[name |-> "crs:ProcessVersion"], [name |-> "crs:Version"], [name |-> "crs:WhiteBalance"]>>],
   [declaration |-> FALSE, root |-> "x:xmpmeta",
    elements |-> <<[name |-> "crs:ProcessVersion"], [name |-> "crs:Version"], [name |-> "crs:WhiteBalance"]>>]}

Requests ==
  {[malformed |-> m, image |-> i, xmp |-> x, xmpString |-> d] :
     m \in BOOLEAN, i \in ImageFiles, x \in XmpFiles, d \in XmpDocs}

\* the directory mkdtemp makes for the request
TempDirectory == "image-analysis-1"

InitRoute ==
  /\ pc = "start"
  /\ route \in {"extract", "apply"}
  /\ request \in Requests
  /\ tmpDir = "" /\ files = {} /\ cleanups = 0 /\ response = [status |-> 0]
  /\ buffer = NoBuffer
  /\ ExtractIdle /\ BandIdle /\ PixelIdle /\ CurveIdle /\ MatrixIdle
  /\ toneMatrix = << >> /\ FaultIdle /\ LutIdle /\ DocIdle /\ PeakIdle
  /\ TraceIdle /\ ApplyIdle /\ CircleIdle /\ ParseIdle
  /\ estimates = [exposure |-> 0]

\* what no step of a handler writes
RouteFrame ==
  /\ UNCHANGED <<buffer, estimates, toneMatrix, route, request>>
  /\ UNCHANGED <<extractVars, bandVars, pixelVars, curveVars, matrixVars>>
  /\ UNCHANGED <<faultVars, lutVars, docVars, peakVars, traceVars, applyVars, circleVars, parseVars>>

\* request.formData() and the validations, up to the first failing one
Validate ==
  /\ pc = "start"
  /\ IF request.malformed
       THEN pc' = "catch" /\ UNCHANGED response
     ELSE IF \/ ~validateImageFile(request.image)
             \/ route = "apply" /\ ~validateXMPFile(request.xmp)
             \/ route = "apply" /\ ~validateXMPContent(request.xmpString).isValid
       THEN pc' = "finally" /\ response' = [status |-> 400]
     ELSE pc' = "save" /\ UNCHANGED response
  /\ UNCHANGED <<tmpDir, files, cleanups>>
  /\ RouteFrame

\* const { imagePath, xmpPath, tmpDir: tempDir } = await saveUploadedImage(image);
\* tmpDir = tempDir
SaveUploadedImage ==
  /\ pc = "save"
  /\ \E outcome \in {"mkdtemp throws", "writeFile throws", "returns"} :
       CASE outcome = "mkdtemp throws" ->
              pc' = "catch" /\ UNCHANGED <<tmpDir, files>>
         [] outcome = "writeFile throws" ->
              pc' = "catch" /\ files' = files \cup {<<TempDirectory>>} /\ UNCHANGED tmpDir
         [] outcome = "returns" ->
              /\ files' = files \cup {<<TempDirectory>>, ImagePath(TempDirectory, request.image)}
              /\ tmpDir' = TempDirectory
              /\ pc' = "analyze"
  /\ UNCHANGED <<cleanups, response>>
  /\ RouteFrame

\* await extractXMPCubeFromImage(buffer, imagePath) or
\* await applyXMPToImage(imageBuffer, xmpString); apply returns its response
Analyze ==
  /\ pc = "analyze"
  /\ \E throws \in BOOLEAN :
       IF throws THEN pc' = "catch" /\ UNCHANGED response
       ELSE IF route = "extract" THEN pc' = "write" /\ UNCHANGED response
       ELSE pc' = "finally" /\ response' = [status |-> 200]
  /\ UNCHANGED <<tmpDir, files, cleanups>>
  /\ RouteFrame

\* await saveXMPFile(xmpPath, xmpContent); return NextResponse.json({ message, xmpPath, properties })
SaveXMPFile ==
  /\ pc = "write"
  /\ \E throws \in BOOLEAN :
       IF throws THEN pc' = "catch" /\ UNCHANGED <<files, response>>
       ELSE /\ files' = files \cup {XmpPath(tmpDir, request.image)}
            /\ response' = [status |-> 200, message |-> "Image analyzed successfully",
                            xmpPath |-> XmpPath(tmpDir, request.image)]
            /\ pc' = "finally"
  /\ UNCHANGED <<tmpDir, cleanups>>
  /\ RouteFrame

\* catch (error) { return NextResponse.json({ error }, { status: 500 }) }
Catch ==
  /\ pc = "catch"
  /\ response' = [status |-> 500]
  /\ pc' = "finally"
  /\ UNCHANGED <<tmpDir, files, cleanups>>
  /\ RouteFrame

\* variant of Finally that leaves the directory alone
FinallyWithoutCleanup ==
  /\ pc = "finally"
  /\ pc' = "done"
  /\ UNCHANGED <<tmpDir, files, cleanups, response>>
  /\ RouteFrame

\* finally { if (tmpDir) await cleanupTempFiles(tmpDir) }; a failing rm is
\* caught inside cleanupTempFiles
Finally ==
  /\ pc = "finally"
  /\ IF tmpDir # ""
       THEN /\ cleanups' = cleanups + 1
            /\ \E removed \in BOOLEAN :
                 files' = IF removed THEN RemoveTree(files, tmpDir) ELSE files
       ELSE UNCHANGED <<cleanups, files>>
  /\ pc' = "done"
  /\ UNCHANGED <<tmpDir, response>>
  /\ RouteFrame

NextRoute == Validate \/ SaveUploadedImage \/ Analyze \/ SaveXMPFile \/ Catch \/ Finally

SpecRoute == InitRoute /\ [][NextRoute]_vars

(***************************************************************************)
(* mergeOverlappingCircles on the lists findCircularPatterns builds:       *)
(* centres on the 10-pixel grid, radii minRadius + 10k, in scan order      *)
(* (y, then x, then radius).  `sources` records, for each output circle,   *)
(* the input indices it was built from.                                    *)
(***************************************************************************)
MaxCircles == 3

CircleShapes ==
  {[center |-> [x |-> x * H, y |-> y * H], radius |-> r * H, strength |-> s] :
     x \in {0, 10, 30}, y \in {0, 10}, r \in {20, 80}, s \in {500, 900}}

\* a comes before b in the scan of findCircularPatterns
ScannedBefore(a, b) ==
  \/ a.center.y < b.center.y
  \/ a.center.y = b.center.y /\ a.center.x < b.center.x
  \/ a.center.y = b.center.y /\ a.center.x = b.center.x /\ a.radius < b.radius

CircleLists ==
  {l \in UNION {[1..n -> CircleShapes] : n \in 0..MaxCircles} :
     \A k \in 1..(Len(l) - 1) : ScannedBefore(l[k], l[k + 1])}

InitMerge ==
  /\ pc = "merge"
  /\ circles \in CircleLists
  /\ used = {} /\ merged = << >> /\ sources = << >> /\ seedIndex = 1
  /\ buffer = NoBuffer
  /\ ExtractIdle /\ BandIdle /\ PixelIdle /\ CurveIdle /\ MatrixIdle
  /\ toneMatrix = << >> /\ FaultIdle /\ LutIdle /\ DocIdle /\ PeakIdle
  /\ TraceIdle /\ ApplyIdle /\ RouteIdle /\ ParseIdle
  /\ estimates = [exposure |-> 0]

\* one iteration of the outer loop
MergeStep ==
  /\ pc = "merge"
  /\ seedIndex <= Len(circles)
  /\ IF seedIndex \in used
       THEN UNCHANGED <<used, merged, sources>>
       ELSE LET result == MergeFrom(circles, seedIndex + 1, circles[seedIndex],
                                    used \cup {seedIndex}, {seedIndex})
            IN /\ used' = result.used
               /\ merged' = Append(merged, result.current)
               /\ sources' = Append(sources, result.members)
  /\ seedIndex' = seedIndex + 1
  /\ UNCHANGED <<pc, circles>>
  /\ UNCHANGED <<buffer, estimates, toneMatrix>>
  /\ UNCHANGED <<extractVars, bandVars, pixelVars, curveVars, matrixVars>>
  /\ UNCHANGED <<faultVars, lutVars, docVars, peakVars, traceVars, applyVars, routeVars, parseVars>>

\* return merged
ReturnMerged ==
  /\ pc = "merge"
  /\ seedIndex > Len(circles)
  /\ pc' = "done"
  /\ UNCHANGED circleVars
  /\ UNCHANGED <<buffer, estimates, toneMatrix>>
  /\ UNCHANGED <<extractVars, bandVars, pixelVars, curveVars, matrixVars>>
  /\ UNCHANGED <<faultVars, lutVars, docVars, peakVars, traceVars, applyVars, routeVars, parseVars>>

NextMerge == MergeStep \/ ReturnMerged

SpecMerge == InitMerge /\ [][NextMerge]_vars

(***************************************************************************)
(* parseToneCurve on a list of rdf:li entries: pairs, entries with one     *)
(* part or three, parts that are not numbers, and an entry that is not a   *)
(* string.                                                                 *)
(***************************************************************************)
MaxEntries == 3

LiEntries ==
  {<<"0", "0">>, <<"128", "160">>, <<"255", "255", "0">>, <<"128">>,
   <<"abc">>, <<"128", "abc">>, <<"", "25">>, << >>}

InitParse ==
  /\ pc = "start"
  /\ liEntries \in UNION {[1..n -> LiEntries] : n \in 0..MaxEntries}
  /\ parsedCurve = << >>
  /\ buffer = NoBuffer
  /\ ExtractIdle /\ BandIdle /\ PixelIdle /\ CurveIdle /\ MatrixIdle
  /\ toneMatrix = << >> /\ FaultIdle /\ LutIdle /\ DocIdle /\ PeakIdle
  /\ TraceIdle /\ ApplyIdle /\ RouteIdle /\ CircleIdle
  /\ estimates = [exposure |-> 0]

\* parseToneCurve({ "rdf:Seq": { "rdf:li": liEntries } })
ParseCurve ==
  /\ pc = "start"
  /\ parsedCurve' = parseToneCurve(Node(liEntries))
  /\ pc' = "done"
  /\ UNCHANGED <<liEntries, buffer, estimates, toneMatrix>>
  /\ UNCHANGED <<extractVars, bandVars, pixelVars, curveVars, matrixVars>>
  /\ UNCHANGED <<faultVars, lutVars, docVars, peakVars, traceVars, applyVars, routeVars, circleVars>>

SpecParse == InitParse /\ [][ParseCurve]_vars

(***************************************************************************)
(* Properties                                                              *)
(***************************************************************************)

\* C1: every curve smoothToneCurve returns for a non-empty list of points has
\* at least 2 points, inputs that never decrease, first input 0, last input
\* 255 and every output in [0, 255].  (SpecCurve)
C1_CurveShape ==
  (pc = "done" /\ Len(points) >= 1) =>
    /\ Len(curve) >= 2
    /\ \A i \in 1..(Len(curve) - 1) : curve[i][1] <= curve[i + 1][1]
    /\ curve[1][1] = 0
    /\ curve[Len(curve)][1] = 255
    /\ \A i \in 1..Len(curve) : curve[i][2] >= 0 /\ curve[i][2] <= 255

\* a curve has been built from points that pull above 255 and below 0, and it
\* touches both ends of the output range
C1_Witness ==
  /\ pc = "done"
  /\ \E k \in 1..Len(points) : points[k].output > 255 * S /\ points[k].weight > 0
  /\ \E k \in 1..Len(points) : points[k].output < 0 /\ points[k].weight > 0
  /\ \E i \in 1..Len(curve) : curve[i][2] = 255 /\ curve[i][1] < 255
  /\ \E i \in 1..Len(curve) : curve[i][2] = 0 /\ curve[i][1] > 0

\* every pixel of the upload is the mid-grey (128, 128, 128)
FlatGray == buffer.nchannels = 3 /\ \A i \in 1..Len(buffer.pixels) : Palette[buffer.pixels[i]] = <<128, 128, 128>>

AllCurves(p) == {p.toneCurve, p.toneCurveRed, p.toneCurveGreen, p.toneCurveBlue}

\* the S-shaped curve of 15 points that the synthesizer builds from the two anchors alone
AnchorCurve ==
  << <<0, 0>>, <<18, 19>>, <<36, 40>>, <<55, 61>>, <<73, 83>>, <<91, 104>>, <<109, 124>>, <<128, 143>>,
     <<146, 160>>, <<164, 177>>, <<182, 192>>, <<200, 207>>, <<219, 222>>, <<237, 238>>, <<255, 255>> >>

\* C2 as stated: for a flat-grey image the record has exposure, contrast,
\* saturation and vibrance 0 and each of the four tone curves is the default
\* curve [[0,0],[255,255]].  (Spec)
C2_FlatGrayDefaultCurves ==
  (pc = "done" /\ FlatGray) =>
    /\ imageProperties.exposure = 0 /\ imageProperties.contrast = 0
    /\ imageProperties.saturation0 = 0 /\ imageProperties.vibrance = 0
    /\ AllCurves(imageProperties) = {DEFAULT_TONE_CURVE}

\* C2, amended: for a flat-grey image the record has exposure, contrast,
\* saturation and vibrance 0, and each of the four tone curves is the same
\* 15-point S-curve from [0,0] to [255,255], not the 2-point default.  (Spec)
C2_FlatGraySCurve ==
  (pc = "done" /\ FlatGray) =>
    /\ imageProperties.exposure = 0 /\ imageProperties.contrast = 0
    /\ imageProperties.saturation0 = 0 /\ imageProperties.vibrance = 0
    /\ AllCurves(imageProperties) = {AnchorCurve}

\* the record of a flat-grey image of two pixels has been built
C2_Witness == pc = "done" /\ FlatGray /\ Len(buffer.pixels) = 2 /\ Len(imageProperties.toneCurve) = 15

\* the numeric scalar fields of the record
ScalarFields(p) ==
  {p.exposure, p.temperature, p.tint, p.contrast, p.saturation0, p.brightness, p.sharpness, p.clarity,
   p.vibrance, p.texture, p.shadows, p.highlights, p.dehaze, p.parametricShadows, p.parametricDarks,
   p.parametricLights, p.parametricHighlights, p.parametricShadowSplit, p.parametricMidtoneSplit,
   p.parametricHighlightSplit, p.toneMapStrength, p.luminanceSmoothing, p.colorNoiseReduction,
   p.vignetteAmount, p.shadowTint, p.splitToningShadowHue, p.splitToningShadowSaturation,
   p.splitToningHighlightHue, p.splitToningHighlightSaturation, p.splitToningBalance}
  \cup {p.hue[c] : c \in BandSet} \cup {p.saturation[c] : c \in BandSet}

\* C3: for every image with 3 channels (statistics in [0,255], zeros
\* included) no numeric field of the record is NaN.  (Spec)
C3_RecordFinite ==
  (pc = "done" /\ buffer.nchannels >= 3) =>
    /\ \A v \in ScalarFields(imageProperties) : ~IsNaN(v)
    /\ \A c \in AllCurves(imageProperties) : \A i \in 1..Len(c) : ~IsNaN(c[i][1]) /\ ~IsNaN(c[i][2])

\* no pixel of the buffer has its hue inside the range of the band
NoPixelInBand ==
  \A i \in 1..Len(buffer.pixels) : ~InRange(HueOfLab(rgbToLab(buffer.pixels[i])), COLOR_RANGES[band])

\* C4: when no pixel has a hue inside the range, analyzeColorDistribution
\* returns weight 0, no peaks and mean {l:0, a:0, b:0}.  (SpecBand)
C4_EmptyMatch ==
  (pc # "start" /\ NoPixelInBand) =>
    /\ distribution.weight = 0
    /\ distribution.peaks = << >>
    /\ distribution.mean = [l |-> 0, a |-> 0, b |-> 0]

\* a two-pixel image none of whose pixels falls in the band has been analysed,
\* while one of its pixels has colour
C4_Witness ==
  /\ pc = "analyzed" /\ NoPixelInBand /\ Len(buffer.pixels) = 2
  /\ \E i \in 1..2 : rgbToLab(buffer.pixels[i]).a # 0

\* the summed confidence weight of the mean and the peaks of a distribution
ConfidenceWeight(d) ==
  LET all == <<d.mean>> \o d.peaks
  IN SumTo([k \in 1..Len(all) |-> ChromaWeight(all[k])], 1, Len(all))

\* C5: calculateColorHue and calculateColorSaturation return 0 when the band
\* holds no pixel of the image, and calculateColorHue returns 0 when the
\* confidence weights of the mean and the peaks add up to 0.  (SpecBand)
C5_ZeroAdjustment ==
  /\ (pc \in {"hue", "done"} /\ NoPixelInBand) => colorHue = 0
  /\ (pc = "done" /\ NoPixelInBand) => colorSaturation = 0
  /\ (pc \in {"hue", "done"} /\ ConfidenceWeight(distribution) = 0) => colorHue = 0

\* both estimators have run on a band that holds pixels without any chroma
C5_Witness ==
  pc = "done" /\ distribution.weight > 0 /\ ConfidenceWeight(distribution) = 0 /\ colorHue = 0

\* C6: a hue is taken into a range with start > end iff it is >= start or
\* <= end, and into any other range iff start <= hue <= end; for red (345 to
\* 15) hues 350 and 10 are taken and hue 200 is not.  (SpecPixel)
C6_WrapAware ==
  pc = "done" =>
    LET lo == COLOR_RANGES[band].start * H
        hi == COLOR_RANGES[band].end * H
    IN /\ lo > hi => (inRange <=> (hue >= lo \/ hue <= hi))
       /\ lo <= hi => (inRange <=> (hue >= lo /\ hue <= hi))
       /\ (band = "red" /\ hue \div H \in {350, 10}) => inRange
       /\ (band = "red" /\ hue \div H = 200) => ~inRange

\* a pixel of hue 350 has been taken into the red band
C6_Witness == pc = "done" /\ band = "red" /\ hue \div H = 350 /\ inRange

C8_NeutralGray ==
  (pc = "done" /\ \A k \in 1..3 : channels[k].mean = 128 * S /\ channels[k].stdev = 0) =>
    estimates.exposure = 0 /\ estimates.contrast = 0 /\ estimates.saturation = 0

\* the estimators have run on three channels of mean 128 and stdev 0
C8_Witness ==
  pc = "done" /\ Len(channels) = 3 /\ \A k \in 1..3 : channels[k].mean = 128 * S /\ channels[k].stdev = 0

\* C9: multiplyMatrices(identity, M) = M and multiplyMatrices(M, identity) = M,
\* entry by entry.  (SpecMatrix)
C9_IdentityNeutral ==
  pc = "done" =>
    /\ matA = IDENTITY_MATRIX => \A i \in 1..3 : \A j \in 1..3 : product[i][j] = matB[i][j]
    /\ matB = IDENTITY_MATRIX => \A i \in 1..3 : \A j \in 1..3 : product[i][j] = matA[i][j]

\* the identity has been multiplied with a matrix that is not symmetric, on either side
C9_Witness ==
  /\ pc = "done"
  /\ \/ matA = IDENTITY_MATRIX /\ matB[1][2] # matB[2][1] /\ product = matB
     \/ matB = IDENTITY_MATRIX /\ matA[1][2] # matA[2][1] /\ product = matA

\* the bands with a nonzero hue or saturation adjustment, in the fixed order
ActiveBands(p) ==
  LET Test(c) == p.hue[c] # 0 \/ p.saturation[c] # 0
  IN SelectSeq(Bands, Test)

RECURSIVE LeftProduct(_, _)
\* accumulator := bandMatrix . accumulator over the bands of seq, from the identity
LeftProduct(p, seq) ==
  IF seq = << >> THEN IDENTITY_MATRIX
  ELSE multiplyMatrices(calculateHueSaturationMatrix(p.hue[seq[Len(seq)]], p.saturation[seq[Len(seq)]]),
                        LeftProduct(p, SubSeq(seq, 1, Len(seq) - 1)))

RECURSIVE RightProduct(_, _)
\* accumulator := accumulator . bandMatrix over the bands of seq, from the identity
RightProduct(p, seq) ==
  IF seq = << >> THEN IDENTITY_MATRIX
  ELSE multiplyMatrices(RightProduct(p, SubSeq(seq, 1, Len(seq) - 1)),
                        calculateHueSaturationMatrix(p.hue[seq[Len(seq)]], p.saturation[seq[Len(seq)]]))

\* C10 as stated: the matrix starts from the identity, visits the bands in
\* the order red .. magenta, skips the bands with both adjustments zero and
\* multiplies every other band's matrix from the left
\* (accumulator := bandMatrix . accumulator).  (SpecCompose)
C10_LeftMultiplied ==
  pc = "done" => resultMatrix = LeftProduct(properties, ActiveBands(properties))

\* C10, amended: same start, order and skipping, but every band's matrix is
\* multiplied from the right (accumulator := accumulator . bandMatrix).  (SpecCompose)
C10_RightMultiplied ==
  pc = "done" => resultMatrix = RightProduct(properties, ActiveBands(properties))

\* a matrix has been composed from three adjusted bands, red and magenta among
\* them, and the order of the factors shows in it
C10_Witness ==
  /\ pc = "done"
  /\ Len(ActiveBands(properties)) = 3
  /\ properties.hue["red"] # 0 /\ properties.saturation["magenta"] # 0
  /\ resultMatrix # LeftProduct(properties, ActiveBands(properties))

\* C11: for every curve of at least 2 points whose first and last inputs
\* differ, the first point [0, 0] and a first output of 0 included,
\* convertToneCurveToMatrix returns [slope, 0, 0] with slope the quotient of
\* the output difference by the input difference of the two end points.
\* (SpecSlope)
C11_SlopeOfEnds ==
  (pc = "done" /\ Len(curve) >= 2 /\ curve[1][1] # curve[Len(curve)][1]) =>
    toneMatrix = <<((curve[Len(curve)][2] - curve[1][2]) * S) \div (curve[Len(curve)][1] - curve[1][1]), 0, 0>>

\* C12: a failure inside the analysis of one band makes that band's task
\* resolve with 0 and nothing else: the Promise.all over the 16 tasks resolves
\* (the call goes on to the tone curves), and every task that did not fail
\* has the result it has without any failure.  (SpecFail)
C12_BandFailureIsolated ==
  /\ (pc = "failed" /\ ~histogramFailed) => failedTasks = {}
  /\ pc = "curves" =>
       /\ Len(bandResults) = Len(Tasks)
       /\ \A k \in 1..Len(Tasks) :
            bandResults[k] = IF k \in failedTasks THEN 0 ELSE TaskResult(Tasks[k], buffer.pixels)

\* the tasks have all settled, one of them failed, and another one has a
\* non-zero result
C12_Witness ==
  /\ pc = "curves"
  /\ failedTasks # {}
  /\ \E k \in 1..Len(Tasks) : k \notin failedTasks /\ bandResults[k] # 0
  /\ \E k \in failedTasks : TaskResult(Tasks[k], buffer.pixels) # 0

\* C13: a failure while building a channel histogram or synthesising a tone
\* curve is caught and surfaced as the default curve, and
\* extractXMPCubeFromImage still returns a complete record.  (SpecFail)
C13_CurveFailureDefaults ==
  histogramFailed =>
    /\ pc \in {"record", "done"}
    /\ toneCurves = [toneCurve |-> DEFAULT_TONE_CURVE, toneCurveRed |-> DEFAULT_TONE_CURVE,
                     toneCurveGreen |-> DEFAULT_TONE_CURVE, toneCurveBlue |-> DEFAULT_TONE_CURVE]

\* C14: the 16 band tasks form an all-or-nothing join.  Tone-curve synthesis
\* and the record start only after every task has settled, and in every
\* completion order each value lands at its own task's index, so each field
\* <band>Hue / <band>Saturation of the record is the result of that band's
\* task.  (SpecJoin)
C14_JoinKeepsBands ==
  /\ pc \in {"curves", "record", "done"} => Settled = 1..Len(Tasks)
  /\ pc = "bands" => toneCurves = [toneCurve |-> << >>] /\ imageProperties = [exposure |-> 0]
  /\ \A k \in DOMAIN bandResults : promises[k].settled /\ bandResults[k] = promises[k].value
  /\ pc = "done" =>
       \A c \in BandSet :
         /\ imageProperties.hue[c] = ColorHueOf(c, buffer.pixels)
         /\ imageProperties.saturation[c] = ColorSaturationOf(c, buffer.pixels)

\* the record is complete and carries two different non-zero band results
C14_Witness ==
  /\ pc = "done"
  /\ imageProperties.hue["red"] # 0
  /\ imageProperties.saturation["red"] # 0
  /\ imageProperties.hue["red"] # imageProperties.saturation["red"]

\* C15: generateCUBELUT emits exactly LUT_SIZE^3 data lines, b outermost and
\* r innermost: the line at index b*N*N + g*N + r is the transform of grid
\* input (r, g, b)/(N-1), and it is a function of those coordinates and the
\* record alone.  (SpecLut)
C15_LutLayout ==
  /\ pc = "done" => Len(content) = LUT_SIZE * LUT_SIZE * LUT_SIZE
  /\ pc \in {"lut", "done"} =>
       \A b \in 0..(LUT_SIZE - 1), g \in 0..(LUT_SIZE - 1), r \in 0..(LUT_SIZE - 1) :
         LET i == b * LUT_SIZE * LUT_SIZE + g * LUT_SIZE + r
         IN i < Len(content) =>
              content[i + 1] = LutLine(r, g, b, properties, calculateColorMatrixFromProperties(properties))

\* the whole table has been emitted for a record with a band adjustment, and
\* its lines at (1, 0, 0) and (0, 0, 1) differ
C15_Witness ==
  /\ pc = "done"
  /\ properties.hue["red"] # 0
  /\ Len(content) = LUT_SIZE * LUT_SIZE * LUT_SIZE
  /\ content[2] # content[LUT_SIZE * LUT_SIZE + 1]

\* C16: every document written by generateXMPCRS is accepted by
\* validateXMPContent (isValid is true).
C16_EmittedAccepted == pc = "validated" => validation.isValid

\* C17: parsing a written document gives back, for every property that
\* generateXMPCRS wrote, the value that was written.
C17_RoundTrip ==
  pc = "parsed" =>
    \A prop \in WrittenProps :
      properties[prop].type # "undefined" => adjustments[prop] = properties[prop]

\* fewer than 3 channels, or one of the first three without one of the statistics
LacksStat(stats) ==
  Len(channels) < 3 \/ \E k \in 1..3 : \E st \in stats : channels[k][st] = undefinedStat

\* C18: with fewer than 3 channels, or a statistic an estimator needs
\* missing from one of the first three channels, exposure, contrast,
\* brightness, saturation, vibrance, tint, shadow tint and tone-map strength
\* are 0, the colour temperature is 5500, the parametric splits are 25, 50
\* and 75, and the composite curve is [[0,0],[255,255]].
C18_NeutralDefaults ==
  pc = "done" =>
    /\ LacksStat({"mean"}) =>
         /\ estimates.exposure = 0 /\ estimates.brightness = 0
         /\ estimates.saturation = 0 /\ estimates.vibrance = 0 /\ estimates.tint = 0
         /\ estimates.temperature = 5500 * S
         /\ estimates.parametricShadowSplit = 25
         /\ estimates.parametricMidtoneSplit = 50
         /\ estimates.parametricHighlightSplit = 75
    /\ LacksStat({"stdev"}) => estimates.contrast = 0
    /\ LacksStat({"min"}) => estimates.shadowTint = 0
    /\ LacksStat({"mean", "stdev", "min", "max"}) =>
         /\ estimates.toneMapStrength = 0
         /\ curve = << <<0, 0>>, <<255, 255>> >>

\* three channels, the second without its maximum: estimated
C18_Witness ==
  /\ pc = "done" /\ Len(channels) = 3
  /\ channels[2].max = undefinedStat /\ channels[2].mean # undefinedStat
  /\ channels[1].mean = 200 * S /\ estimates.exposure # 0 /\ estimates.toneMapStrength = 0

IsFraction(x) == x >= 0 /\ x <= S

\* C20: every peak height findHistogramPeaks returns, in either mode, the
\* weight of every distribution analyzeColorDistribution returns, and the
\* weight of every tone point findSignificantTonePointsFromHistogram makes,
\* lie in [0, 1].
C20_FractionsInUnit ==
  /\ \A k \in 1..Len(histogram.peaks) : IsFraction(histogram.peaks[k].height)
  /\ \A k \in 1..Len(huePeaks) : IsFraction(huePeaks[k].height)
  /\ IsFraction(distribution.weight)
  /\ \A k \in 1..Len(points) : IsFraction(points[k].weight)

\* half of the buffer fell in the band, both modes found a peak, and the
\* peak gave tone points besides the two anchors
C20_Witness ==
  /\ pc = "done"
  /\ distribution.weight = S \div 2
  /\ Len(histogram.peaks) > 0 /\ Len(huePeaks) > 0
  /\ Len(points) > 2
  /\ \E k \in 1..Len(points) : points[k].weight > 0 /\ points[k].weight < S

\* C21: without mean and stdev, findHistogramPeaks on a histogram of counts
\* returns one peak for each interior index whose count is above both
\* neighbours and above 1% of the highest bin, in ascending position, and
\* none at the first or last index or on a plateau.
C21_FallbackPeaks ==
  pc \in {"peaks", "done"} =>
    LET count == histogram.values
        highest == SetMax({count[i] : i \in 0..(MaxBins - 1)})
        expected == {i \in 1..(MaxBins - 2) :
                       count[i] > count[i - 1] /\ count[i] > count[i + 1] /\ count[i] * 100 > highest}
    IN /\ {huePeaks[k].position : k \in 1..Len(huePeaks)} = expected
       /\ \A k \in 1..(Len(huePeaks) - 1) : huePeaks[k].position < huePeaks[k + 1].position
       /\ \A k \in 1..Len(huePeaks) :
            /\ huePeaks[k].position # 0 /\ huePeaks[k].position # MaxBins - 1
            /\ count[huePeaks[k].position] # count[huePeaks[k].position - 1]
            /\ count[huePeaks[k].position] # count[huePeaks[k].position + 1]

\* the histogram 2, 2, 0, 150, 0: index 1 is as high as index 0 and is not
\* reported, index 3 is
C21_Witness ==
  /\ pc = "peaks"
  /\ histogram.values[0] = 2 /\ histogram.values[1] = 2 /\ histogram.values[2] = 0
  /\ histogram.values[3] = 150 /\ histogram.values[4] = 0
  /\ Len(huePeaks) = 1 /\ huePeaks[1].position = 3

\* the number of shoulders of a peak that fall strictly inside (0, 255)
ShouldersInside(peak) ==
  (IF peak.position * S - peak.width * (S \div H) > 0 THEN 1 ELSE 0)
  + (IF peak.position * S + peak.width * (S \div H) < 255 * S THEN 1 ELSE 0)

\* C22: the tone points made of a histogram's peaks hold the anchors
\* (0, 0, weight 1) and (255, 255, weight 1), are sorted by non-decreasing
\* input, give each peak a point with output in [0, 255] that is at least
\* its input below 128 and at most its input from 128 on, and hold a
\* shoulder only where its input lies strictly between 0 and 255.
C22_TonePoints ==
  pc = "done" =>
    LET peaks == histogram.peaks
        pts == {points[k] : k \in 1..Len(points)}
    IN /\ [input |-> 0, output |-> 0, weight |-> S] \in pts
       /\ [input |-> 255 * S, output |-> 255 * S, weight |-> S] \in pts
       /\ \A k \in 1..(Len(points) - 1) : points[k].input <= points[k + 1].input
       /\ \A j \in 1..Len(peaks) :
            \E p \in pts :
              /\ p.input = peaks[j].position * S /\ p.weight = peaks[j].height
              /\ p.output >= 0 /\ p.output <= 255 * S
              /\ IF peaks[j].position < 128 THEN p.output >= p.input ELSE p.output <= p.input
       /\ \A p \in pts : p.input \in {0, 255 * S} \/ (p.input > 0 /\ p.input < 255 * S)
       /\ Len(points) =
            2 + Len(peaks) + SumTo([j \in 1..Len(peaks) |-> ShouldersInside(peaks[j])], 1, Len(peaks))

\* a shadow peak next to the lower end and a highlight peak next to the upper
\* end, each 2 bins wide, have given their points and one shoulder each
C22_Witness ==
  /\ pc = "done"
  /\ Len(histogram.peaks) = 2
  /\ histogram.peaks[1] = [position |-> 1, height |-> S, width |-> 2 * H]
  /\ histogram.peaks[2] = [position |-> 254, height |-> 200, width |-> 2 * H]
  /\ Len(points) = 6
  /\ \E k \in 1..Len(points) : points[k].input = 254 * S /\ points[k].output < points[k].input

\* the flattened indices of the points of a stroke
StrokeIndices(s) == {s[k].y * edges.width + s[k].x : k \in 1..Len(s)}

\* the flattened indices of the edge pixels
EdgePixels == {i \in 0..(edges.width * edges.height - 1) : edges.data[i] > 128}

\* two pixels touch by a side or a corner
Touching(i, j) ==
  /\ i # j
  /\ (i % edges.width) - (j % edges.width) \in {0 - 1, 0, 1}
  /\ (i \div edges.width) - (j \div edges.width) \in {0 - 1, 0, 1}

RECURSIVE ComponentFrom(_)
\* the 8-connected set of edge pixels grown from the set c
ComponentFrom(c) ==
  LET more == {j \in EdgePixels \ c : \E i \in c : Touching(i, j)}
  IN IF more = {} THEN c ELSE ComponentFrom(c \cup more)

\* no pixel is recorded twice, in one stroke or in two
RecordedOnce ==
  LET all == strokes \o << stroke >>
  IN /\ \A k \in 1..Len(all) : Cardinality(StrokeIndices(all[k])) = Len(all[k])
     /\ \A j, k \in 1..Len(all) :
          j < k /\ (k <= Len(strokes) \/ pc = "trace") => StrokeIndices(all[j]) \cap StrokeIndices(all[k]) = {}

\* every edge pixel lies in a stroke, and every stroke is the component of its first pixel
StrokesAreComponents ==
  /\ UNION {StrokeIndices(strokes[k]) : k \in 1..Len(strokes)} = EdgePixels
  /\ \A k \in 1..Len(strokes) :
       /\ strokes[k] # << >>
       /\ StrokeIndices(strokes[k]) = ComponentFrom({strokes[k][1].y * edges.width + strokes[k][1].x})

\* C23: tracing terminates (the scan of findBrushPatterns reaches its end),
\* no pixel is recorded twice, and at the end every edge pixel (value above
\* 128) lies in exactly one stroke, each stroke being the 8-connected
\* component of edge pixels of its start pixel.
C23_TraceComponents ==
  /\ [](RecordedOnce /\ (pc = "done" => StrokesAreComponents))
  /\ <>(pc = "done")

\* two edge pixels that touch by a corner only were traced as one stroke
C23_Witness ==
  /\ pc = "done"
  /\ edges.data[0] = 200 /\ edges.data[1] = 128 /\ edges.data[MaxWidth] = 128 /\ edges.data[MaxWidth + 1] = 200
  /\ Len(strokes) = 1 /\ Len(strokes[1]) >= 2

\* C24: for three channels with means in (0, 255] the parametric shadow
\* split lies in 15..35, the midtone split in 40..60 and the highlight split
\* in 65..85, and shadow split < midtone split < highlight split.
C24_SplitRanges ==
  (pc = "done" /\ \A k \in 1..3 : channels[k].mean > 0 /\ channels[k].mean <= 255 * S) =>
    /\ estimates.parametricShadowSplit \in 15..35
    /\ estimates.parametricMidtoneSplit \in 40..60
    /\ estimates.parametricHighlightSplit \in 65..85
    /\ estimates.parametricShadowSplit < estimates.parametricMidtoneSplit
    /\ estimates.parametricMidtoneSplit < estimates.parametricHighlightSplit

\* three channels of mean 255 have given the upper ends 35, 60 and 85
C24_Witness ==
  /\ pc = "done"
  /\ \A k \in 1..3 : channels[k].mean = 255 * S
  /\ estimates.parametricShadowSplit = 35
  /\ estimates.parametricMidtoneSplit = 60
  /\ estimates.parametricHighlightSplit = 85

\* every row of the matrix handed to recomb is the value [1, 0, 0]
DefaultRows ==
  /\ recombMatrix # << >>
  /\ \A i \in 1..3 : recombMatrix[i] = <<S, 0, 0>>

\* C25: when a step of applyXMPToImage builds its recombination matrix from
\* rows [1, 0, 0], the value convertToneCurveToMatrix returns for a missing,
\* too-short or invalid curve, that matrix is the identity and the step leaves
\* the pixel's R, G and B unchanged
C25_DefaultRowsIdentity ==
  DefaultRows => recombMatrix = IDENTITY_MATRIX /\ recombined = pixel

\* the hues calculateColorHue reads: of the mean and of each peak
DistributionHues ==
  {HueOfLab(distribution.mean)} \cup {HueOfLab(distribution.peaks[k]) : k \in 1..Len(distribution.peaks)}

\* C26: in calculateColorHue every hue lies in [0, 360] and, for every hue of
\* [0, 360] and every band centre, the wrapped hue difference lies in
\* [-180, 180]; the returned adjustment has absolute value at most 135
C26_HueBounded ==
  pc = "hue" =>
    /\ \A h \in DistributionHues :
         /\ 0 <= h /\ h <= 360 * H
         /\ Abs(HueDiff(h, COLOR_RANGES[band].center)) <= 180 * H
    /\ \A d \in 0..360 : \A k \in 1..Len(Bands) :
         Abs(HueDiff(d * H, COLOR_RANGES[Bands[k]].center)) <= 180 * H
    /\ Abs(colorHue) <= 135

\* the mean's hue lies more than 180 degrees below the centre of magenta, so
\* 360 is added, and a positive adjustment is returned
C26_Witness ==
  /\ pc = "hue"
  /\ band = "magenta"
  /\ HueOfLab(distribution.mean) - 315 * H < 0 - 180 * H
  /\ colorHue > 0

\* C27: in both POST handlers, once saveUploadedImage has returned a temporary
\* directory, cleanupTempFiles is called on it exactly once before the handler
\* finishes, whether the analysis succeeds or throws; a validation failure
\* answers 400 without a temporary directory; cleanupTempFiles never throws,
\* so the response chosen before the finally block is the one returned
C27_CleanupOnce ==
  /\ cleanups <= 1
  /\ pc # "done" => cleanups = 0
  /\ pc = "done" => (cleanups = 1 <=> tmpDir # "")
  /\ pc = "done" => response.status \in {200, 400, 500}
  /\ response.status = 400 => tmpDir = "" /\ files = {}
  /\ response.status = 200 => tmpDir # ""

\* the analysis threw after the directory was made; the handler has finished
\* with 500 and one cleanup
C27_Witness ==
  /\ pc = "done"
  /\ route = "apply"
  /\ response.status = 500
  /\ tmpDir # ""
  /\ cleanups = 1

\* C28: when the extract route responds with success and an xmpPath, the file
\* written by saveXMPFile exists at xmpPath when the handler completes
C28_SidecarExists ==
  pc = "done" /\ route = "extract" /\ response.status = 200 => response.xmpPath \in files

\* every input index is in the sources of exactly one output circle, whose
\* first source is its seed
ConsumedOnce ==
  /\ Len(sources) = Len(merged)
  /\ \A i \in 1..Len(circles) : Cardinality({k \in 1..Len(sources) : i \in sources[k]}) = 1
  /\ \A k \in 1..Len(sources) : sources[k] # {} /\ sources[k] \subseteq 1..Len(circles)

\* C29: mergeOverlappingCircles consumes every input circle exactly once (as
\* the seed of one output circle or merged into exactly one), its output is
\* never longer than its input, and no two circles of its result satisfy the
\* overlap criterion (centre distance < half the sum of the radii)
C29_MergedDisjoint ==
  pc = "done" =>
    /\ ConsumedOnce
    /\ Len(merged) <= Len(circles)
    /\ \A k \in 1..Len(merged) : \A l \in 1..Len(merged) :
         k # l => ~Overlapping(merged[k], merged[l])

\* an entry with two numbers before and after its first comma
NumericPair(parts) ==
  Len(parts) >= 2 /\ ~IsNaN(parseFloat(parts[1])) /\ ~IsNaN(parseFloat(parts[2]))

\* C30: parseToneCurve returns either undefined or a non-empty list in which
\* every point is a pair of two numbers, neither of them NaN, for any list of
\* rdf:li entries, and it keeps the valid entries in their order
C30_ParsedPairs ==
  pc = "done" =>
    \/ parsedCurve = Undefined
    \/ /\ parsedCurve.type = "curve"
       /\ parsedCurve.pts # << >>
       /\ \A i \in 1..Len(parsedCurve.pts) :
            /\ Len(parsedCurve.pts[i]) = 2
            /\ \A k \in 1..2 : IsNumber(parsedCurve.pts[i][k]) /\ ~IsNaN(parsedCurve.pts[i][k])
       /\ LET kept == SelectSeq(liEntries, NumericPair)
          IN parsedCurve.pts = [i \in 1..Len(kept) |-> <<parseFloat(kept[i][1]), parseFloat(kept[i][2])>>]

====
